---------------------------- MODULE Spec2Model ----------------------------
(***************************************************************************)
(* A model of the FRI low-degree test and the two-adic polynomial          *)
(* commitment scheme of Plonky3 (lita-xyz fork):                           *)
(*   fri/src/prover.rs          prove, commit_phase, answer_query          *)
(*   fri/src/two_adic_pcs.rs    open_multi_batches, verify_multi_batches,  *)
(*                              compute_inverse_denominators, PowersReducer*)
(*   interpolation/src/lib.rs   interpolate_coset, interpolate_subgroup    *)
(* The field, the transcript (challenger), the commitment scheme (Mmcs),   *)
(* the DFT, the folding rule and the FRI verifier are collaborators whose  *)
(* code is not among the modelled files; they are modelled from their      *)
(* contracts.                                                              *)
(***************************************************************************)
EXTENDS Integers, Sequences, FiniteSets, TLC

VARIABLES
    rd,             \* PowersReducer harness: the reducer and its last call
    ip,             \* interpolation harness: the evaluation table and the last call
    pr,             \* PublicRow harness: the stored vector and the last call
    cfg,            \* FriConfig: log_blowup, log_final_poly_len, num_queries, proof_of_work_bits,
                    \* and the extra_query_index_bits of the folding rule
    debug,          \* whether the build has debug assertions enabled
    inputs,         \* prove: the input codewords
    pc,             \* prove: position of the driving thread
    folded,         \* commit_phase: the current codeword
    taken,          \* commit_phase: how many inputs inputs_iter has yielded
    commits,        \* commit_phase: commitments, one per round
    data,           \* commit_phase: retained prover data, one per round
    final_poly,     \* commit_phase: coefficients of the final polynomial
    pow_witness,    \* prove: the proof-of-work witness
    query_indices,  \* prove: the sampled query indices
    input_proofs,   \* prove: open_input of every query index
    answers,        \* prove: the slots the parallel collect fills
    answered,       \* prove: the query workers that have finished
    proof,          \* prove: the returned FriProof
    transcript,     \* the challenger: every observe / sample / grind so far
    oracle,         \* the transcript function: answers fixed by an earlier run
    run,            \* 1: first run of prove, 2: its repetition
    proof1,         \* the proof of the first run
    scn,            \* PCS: the polynomials the caller commits to and the opening points
    pdata,          \* PCS: the prover data of every committed batch
    all_opened_values, \* PCS: the opened values open_multi_batches returns
    vin,            \* verifier: commitments and points, dims, values and proof it is given
    tamper,         \* verifier: the change made to the prover's output, if any
    ppc,            \* PCS: position in the round trip
    vtranscript,    \* verifier: its challenger
    vchal,          \* verifier: alpha and the FRI challenges sampled so far
    vro,            \* verifier: the reduced openings of every query
    vresult,        \* verifier: what verify_multi_batches returned
    result0         \* verifier: what it returned on the prover's unchanged output

harnessVars == <<rd, ip, pr>>
proverVars == <<pc, folded, taken, commits, data, final_poly, pow_witness,
                query_indices, input_proofs, answers, answered, proof, transcript>>
pcsVars == <<scn, pdata, all_opened_values, vin, tamper, ppc, vtranscript, vchal, vro, vresult, result0>>
friVars == <<cfg, debug, inputs, proverVars, oracle, run, proof1, pcsVars>>
vars == <<harnessVars, friVars>>

(***************************************************************************)
(* Field capability.  Val is the prime field of order P, Challenge its     *)
(* quadratic extension Val[X]/(X^2 - W).  An element a + b*X is the        *)
(* integer a + P*b, so a base element is its own embedding (from_base).    *)
(***************************************************************************)
P == 97
W == 5
Generator == 5
TwoAdicity == 5

RECURSIVE Pow2(_)
Pow2(n) == IF n = 0 THEN 1 ELSE 2 * Pow2(n - 1)

BAdd(a, b) == (a + b) % P
BSub(a, b) == (a - b + P) % P
BMul(a, b) == (a * b) % P

RECURSIVE BPow(_, _)
BPow(x, n) ==
    IF n = 0 THEN 1
    ELSE IF n % 2 = 0 THEN BPow(BMul(x, x), n \div 2)
    ELSE BMul(x, BPow(BMul(x, x), n \div 2))

\* Field::inverse on a nonzero base element (Fermat)
BInv(x) == BPow(x, P - 2)

Lo(e) == e % P
Hi(e) == e \div P
Ext(a, b) == a + P * b
IsBase(e) == e < P

\* ExtensionField::as_base_slice
AsBaseSlice(e) == <<Lo(e), Hi(e)>>

\* EF::D, the extension degree
ExtD == Len(AsBaseSlice(0))

\* ExtensionField::from_base_fn
FromBaseFn(f) == Ext(f[1], f[2])

EAdd(a, b) == Ext(BAdd(Lo(a), Lo(b)), BAdd(Hi(a), Hi(b)))
ESub(a, b) == Ext(BSub(Lo(a), Lo(b)), BSub(Hi(a), Hi(b)))
ENeg(a) == ESub(0, a)
EMul(a, b) ==
    Ext(BAdd(BMul(Lo(a), Lo(b)), BMul(W, BMul(Hi(a), Hi(b)))),
        BAdd(BMul(Lo(a), Hi(b)), BMul(Hi(a), Lo(b))))

RECURSIVE EPow(_, _)
EPow(x, n) ==
    IF n = 0 THEN 1
    ELSE IF n % 2 = 0 THEN EPow(EMul(x, x), n \div 2)
    ELSE EMul(x, EPow(EMul(x, x), n \div 2))

\* Field::inverse on a nonzero extension element: conj(a) / norm(a)
EInv(a) ==
    LET n == BSub(BMul(Lo(a), Lo(a)), BMul(W, BMul(Hi(a), Hi(a))))
        ni == BInv(n)
    IN  Ext(BMul(Lo(a), ni), BMul(BSub(0, Hi(a)), ni))

\* TwoAdicField::two_adic_generator(bits): a generator of the subgroup of order 2^bits
TwoAdicGenerator(bits) == BPow(Generator, (P - 1) \div Pow2(bits))

RECURSIVE ESum(_)
ESum(s) == IF s = <<>> THEN 0 ELSE EAdd(Head(s), ESum(Tail(s)))

Min(a, b) == IF a <= b THEN a ELSE b
Max(a, b) == IF a >= b THEN a ELSE b

RECURSIVE SeqsOfLen(_, _)
SeqsOfLen(S, n) ==
    IF n = 0 THEN {<<>>}
    ELSE {Append(s, x) : s \in SeqsOfLen(S, n - 1), x \in S}

(***************************************************************************)
(* p3_util                                                                 *)
(***************************************************************************)
\* reverse_bits_len(x, n): the low n bits of x, reversed
RECURSIVE ReverseBitsLen(_, _)
ReverseBitsLen(x, n) ==
    IF n = 0 THEN 0
    ELSE (x % 2) * Pow2(n - 1) + ReverseBitsLen(x \div 2, n - 1)

\* log2_strict_usize(n) for a power of two n
RECURSIVE Log2(_)
Log2(n) == IF n <= 1 THEN 0 ELSE 1 + Log2(n \div 2)

IsPow2(n) == n >= 1 /\ Pow2(Log2(n)) = n

\* reverse_slice_index_bits: entry i moves to the bit-reversed index
ReverseSliceIndexBits(s) ==
    [i \in 1..Len(s) |-> s[ReverseBitsLen(i - 1, Log2(Len(s))) + 1]]

\* cyclic_subgroup_coset_known_order(g, shift, order): shift * g^i, i < order
CyclicSubgroupCoset(g, shift, order) ==
    [i \in 1..order |-> BMul(shift, BPow(g, i - 1))]

\* usize::next_multiple_of
NextMultipleOf(n, w) == ((n + w - 1) \div w) * w

(***************************************************************************)
(* PowersReducer (two_adic_pcs.rs).  A packed value F::Packing is a        *)
(* sequence of `width` base-field lanes.                                   *)
(***************************************************************************)
\* PackedField::pack_slice: consecutive chunks of `width` lanes
PackSlice(s, width) ==
    [j \in 1..(Len(s) \div width) |-> SubSeq(s, (j - 1) * width + 1, j * width)]

\* PackedField::pack_slice_with_suffix: the full chunks and the unaligned tail
PackSliceWithSuffix(s, width) ==
    LET full == (Len(s) \div width) * width
    IN  [packed |-> PackSlice(SubSeq(s, 1, full), width),
         sfx    |-> SubSeq(s, full + 1, Len(s))]

\* transpose_vec
TransposeVec(v) ==
    [j \in 1..Len(v[1]) |-> [d \in 1..Len(v) |-> v[d][j]]]

ReducerPowers(base, max_width, width) ==
    [i \in 1..NextMultipleOf(max_width, width) |-> EPow(base, i - 1)]

\* PowersReducer::new
ReducerNew(base, max_width, width) ==
    LET powers == ReducerPowers(base, max_width, width)
    IN  [powers |-> powers,
         transposed_packed |->
            TransposeVec([d \in 1..ExtD |->
                PackSlice([i \in 1..Len(powers) |-> AsBaseSlice(powers[i])[d]],
                          width)]),
         width |-> width]

\* A plausible slip: the suffix weighted from the start of the powers
ReduceSfxFromStart(r, sfx, start) ==
    ESum([i \in 1..Min(Len(sfx), Len(r.powers)) |-> EMul(r.powers[i], sfx[i])])

\* the tail of reduce_base: xs_sfx zipped with powers[start..]
ReduceSfx(r, sfx, start) ==
    ESum([i \in 1..Min(Len(sfx), Len(r.powers) - start) |->
             EMul(r.powers[start + i], sfx[i])])

\* PowersReducer::reduce_ext
ReduceExt(r, xs) ==
    ESum([i \in 1..Min(Len(r.powers), Len(xs)) |-> EMul(r.powers[i], xs[i])])

RECURSIVE PackedAcc(_, _, _, _, _)
\* sums[d] after the first j chunks: lane-wise sums[d] += x * pows[d]
PackedAcc(r, packed, d, j, lane) ==
    IF j = 0 THEN 0
    ELSE BAdd(PackedAcc(r, packed, d, j - 1, lane),
              BMul(packed[j][lane], r.transposed_packed[j][d][lane]))

RECURSIVE BSumTo(_, _)
BSumTo(f, n) == IF n = 0 THEN 0 ELSE BAdd(BSumTo(f, n - 1), f[n])

\* PowersReducer::reduce_base; ok is FALSE (a panic) when the suffix slice starts
\* past the powers
ReduceBase(r, xs) ==
    LET split  == PackSliceWithSuffix(xs, r.width)
        n      == Min(Len(split.packed), Len(r.transposed_packed))
        sums   == [d \in 1..ExtD |->
                      [lane \in 1..r.width |-> PackedAcc(r, split.packed, d, n, lane)]]
        packed_sum == FromBaseFn([d \in 1..ExtD |-> BSumTo(sums[d], r.width)])
        start  == Len(split.packed) * r.width
    IN  IF start > Len(r.powers) THEN [ok |-> FALSE, val |-> 0]
        ELSE [ok |-> TRUE, val |-> EAdd(packed_sum, ReduceSfx(r, split.sfx, start))]

\* the reference of test_powers_reducer: sum_i alpha^i * xs[i]
NaiveReduce(alpha, xs) ==
    ESum([i \in 1..Len(xs) |-> EMul(EPow(alpha, i - 1), xs[i])])

(***************************************************************************)
(* Interpolation (interpolation/src/lib.rs).  A matrix is a sequence of    *)
(* rows, each a sequence of `width` values.                                *)
(***************************************************************************)
MatHeight(m) == Len(m)
MatWidth(m)  == IF Len(m) = 0 THEN 0 ELSE Len(m[1])

\* two_adic_coset_zerofier(log_n, shift, x) = x^(2^log_n) - shift^(2^log_n)
TwoAdicCosetZerofier(log_n, shift, x) ==
    ESub(EPow(x, Pow2(log_n)), EPow(shift, Pow2(log_n)))

\* batch_multiplicative_inverse: ok is FALSE (Field::inverse panics) when an
\* entry is zero
BatchMultiplicativeInverse(xs) ==
    IF \E i \in 1..Len(xs) : xs[i] = 0 THEN [ok |-> FALSE, val |-> <<>>]
    ELSE [ok |-> TRUE, val |-> [i \in 1..Len(xs) |-> EInv(xs[i])]]

\* A plausible slip: shift^height in place of shift^(height - 1)
InterpDenominatorOff(height, shift) == BMul(height % P, BPow(shift, height))

\* denominator = height * shift^(height - 1)
InterpDenominator(height, shift) == BMul(height % P, BPow(shift, height - 1))

\* interpolate_coset: the values at `point` of the columns of coset_evals, given
\* on the coset shift*<g> in natural order
InterpolateCoset(coset_evals, shift, point) ==
    LET width  == MatWidth(coset_evals)
        height == MatHeight(coset_evals)
        log_height == Log2(height)
        g      == TwoAdicGenerator(log_height)
        coset  == CyclicSubgroupCoset(g, shift, height)
        diffs  == [i \in 1..height |-> ESub(point, coset[i])]
        diff_invs == BatchMultiplicativeInverse(diffs)
        denominator == InterpDenominator(height, shift)
    IN  IF ~diff_invs.ok \/ denominator = 0 THEN [ok |-> FALSE, val |-> <<>>]
        ELSE
          LET s(i) == EMul(diff_invs.val[i], BPow(g, i - 1))
              sum  == [c \in 1..width |->
                         ESum([i \in 1..height |-> EMul(s(i), coset_evals[i][c])])]
              zerofier == TwoAdicCosetZerofier(log_height, shift, point)
              scale == EMul(zerofier, BInv(denominator))
          IN  [ok |-> TRUE, val |-> [c \in 1..width |-> EMul(scale, sum[c])]]

\* interpolate_subgroup
InterpolateSubgroup(subgroup_evals, point) == InterpolateCoset(subgroup_evals, 1, point)

\* Horner evaluation of a coefficient vector (lowest degree first)
RECURSIVE PolyEval(_, _)
PolyEval(coeffs, x) ==
    IF coeffs = <<>> THEN 0
    ELSE EAdd(Head(coeffs), EMul(x, PolyEval(Tail(coeffs), x)))

\* the evaluation table of the columns' polynomials on shift*<g>, natural order
CosetEvals(polys, log_height, shift) ==
    LET coset == CyclicSubgroupCoset(TwoAdicGenerator(log_height), shift, Pow2(log_height))
    IN  [i \in 1..Pow2(log_height) |->
            [c \in 1..Len(polys) |-> PolyEval(polys[c], coset[i])]]

(***************************************************************************)
(* Collaborators of the FRI prover, modelled from their contracts          *)
(***************************************************************************)
\* FriGenericConfig::extra_query_index_bits of the folding rule g in use
ExtraQueryIndexBits == cfg.extra_query_index_bits

\* RowMajorMatrix::new(values, width)
RowMajorMatrix(values, width) ==
    [i \in 1..(Len(values) \div width) |-> SubSeq(values, (i - 1) * width + 1, i * width)]

\* Mmcs::commit_matrix of an ideal (binding) commitment: the commitment stands
\* for the committed matrix
MmcsCommitMatrix(leaves) == [commit |-> leaves, prover_data |-> leaves]

\* Mmcs::open_batch(index, prover_data) for a single committed matrix
MmcsOpenBatch(index, prover_data) ==
    [opened_rows |-> <<prover_data[index + 1]>>,
     opening_proof |-> [root |-> prover_data, index |-> index]]

\* Mmcs::verify_batch for a single committed matrix
MmcsVerifyBatch(commit, width, height, index, opened_rows, opening_proof) ==
    /\ MatHeight(commit) = height
    /\ MatWidth(commit) = width
    /\ index < height
    /\ opening_proof = [root |-> commit, index |-> index]
    /\ opened_rows = <<commit[index + 1]>>

\* FriGenericConfig::fold_matrix: row i holds p(x), p(-x) for
\* x = g^bitrev(i); the result is p_e(x^2) + beta * p_o(x^2)
FoldMatrix(beta, m) ==
    LET height == MatHeight(m)
        g_inv == BInv(TwoAdicGenerator(Log2(height) + 1))
        one_half == BInv(2)
        half_beta == EMul(beta, one_half)
        powers == ReverseSliceIndexBits(
                      [i \in 1..height |-> EMul(half_beta, BPow(g_inv, i - 1))])
    IN  [i \in 1..height |->
            EAdd(EMul(EAdd(one_half, powers[i]), m[i][1]),
                 EMul(ESub(one_half, powers[i]), m[i][2]))]

\* FriGenericConfig::fold_row: the line through (x, e0), (-x, e1) at beta
FoldRow(index, log_height, beta, evals) ==
    LET x0 == BPow(TwoAdicGenerator(log_height + 1), ReverseBitsLen(index, log_height))
        x1 == BSub(0, x0)
    IN  EAdd(evals[1],
             EMul(EMul(ESub(beta, x0), ESub(evals[2], evals[1])),
                  BInv(BSub(x1, x0))))

\* TwoAdicSubgroupDft::idft: coefficients from evaluations on the subgroup
\* of the vector's size, natural order
Idft(v) ==
    LET n == Len(v)
        g_inv == BInv(TwoAdicGenerator(Log2(n)))
        n_inv == BInv(n % P)
    IN  [j \in 1..n |->
            EMul(n_inv, ESum([i \in 1..n |->
                                EMul(v[i], BPow(g_inv, (i - 1) * (j - 1)))]))]

(***************************************************************************)
(* The challenger.  The transcript is the record of every operation; a     *)
(* sampled value is a function of the operations before it: free the first *)
(* time a history occurs, fixed by `oracle` when the history was seen.      *)
(***************************************************************************)
Obs(kind, v) == <<"observe", kind, v>>
ObsCommit(c) == Obs(0, c)
ObsExt(x) == Obs(1, <<<<x>>>>)
Smp(kind, arg, v) == <<kind, arg, <<<<v>>>>>>

Forced(tr, kind, arg) ==
    /\ Len(tr) < Len(oracle)
    /\ SubSeq(oracle, 1, Len(tr)) = tr
    /\ oracle[Len(tr) + 1][1] = kind
    /\ oracle[Len(tr) + 1][2] = arg

SampleChoices(tr, kind, arg, S) ==
    IF Forced(tr, kind, arg) THEN {oracle[Len(tr) + 1][3][1][1]} ELSE S

RECURSIVE ObserveAll(_, _)
ObserveAll(tr, xs) ==
    IF xs = <<>> THEN tr ELSE ObserveAll(Append(tr, ObsExt(Head(xs))), Tail(xs))

(***************************************************************************)
(* Two-adic PCS (two_adic_pcs.rs).  A batch's prover data is the sequence  *)
(* of its committed matrices; mats_and_points is a sequence of records     *)
(* [mats, points], points holding one sequence of points per matrix.       *)
(***************************************************************************)
SetMax(S) == CHOOSE x \in S : \A y \in S : y <= x

RECURSIVE Concat(_)
Concat(ss) == IF ss = <<>> THEN <<>> ELSE Head(ss) \o Concat(Tail(ss))

\* the length of the reduced_openings, num_reduced, ro and alpha_pow arrays
RoSlots == 32

\* the width of usize
UsizeBits == 64

\* F::Packing::WIDTH of the build
PcsPackWidth == 2

\* x >> n on usize, for x below 2^31
Shr(x, n) == IF n >= 31 THEN 0 ELSE x \div Pow2(n)

\* TwoAdicSubgroupDft::coset_lde_batch: the columns' polynomials, given by their
\* values on the subgroup, evaluated on shift*<g> of 2^added_bits times the size
CosetLdeBatch(input, added_bits, shift) ==
    LET h == MatHeight(input)
        coeffs == [c \in 1..MatWidth(input) |-> Idft([i \in 1..h |-> input[i][c]])]
    IN  CosetEvals(coeffs, Log2(h) + added_bits, shift)

\* compute_coset_ldes_batches
ComputeCosetLdesBatches(polynomials, coset_shifts, c) ==
    [m \in 1..Len(polynomials) |->
        CosetLdeBatch(polynomials[m], c.log_blowup,
                      BMul(Generator, BInv(coset_shifts[m])))]

\* Mmcs::commit of an ideal (binding) commitment to a batch of matrices
MmcsCommit(mats) == [commit |-> mats, prover_data |-> mats]

\* Mmcs::get_matrices
MmcsGetMatrices(prover_data) == prover_data

\* Mmcs::get_max_height
MmcsGetMaxHeight(prover_data) ==
    SetMax({MatHeight(prover_data[m]) : m \in 1..Len(prover_data)})

\* Mmcs::open_batch(index, prover_data): of every matrix the row the index
\* designates, the index being relative to the tallest matrix
MmcsOpenBatchAll(index, prover_data) ==
    LET log_max == Log2(MmcsGetMaxHeight(prover_data))
    IN  [opened_values |->
            [m \in 1..Len(prover_data) |->
                prover_data[m][Shr(index, log_max - Log2(MatHeight(prover_data[m]))) + 1]],
         opening_proof |-> [root |-> prover_data, index |-> index]]

\* Mmcs::verify_batch: the dimensions fit the committed matrices up to a common
\* power-of-two factor of the heights, and the rows are the committed rows
MmcsVerifyBatchAll(commit, dims, index, opened_values, opening_proof) ==
    /\ dims # <<>>
    /\ Len(dims) = Len(commit)
    /\ Len(opened_values) = Len(commit)
    /\ \A m \in 1..Len(dims) :
         /\ dims[m].width = MatWidth(commit[m])
         /\ dims[m].height >= 1
         /\ dims[m].height * MatHeight(commit[1]) = dims[1].height * MatHeight(commit[m])
    /\ index < MmcsGetMaxHeight(commit)
    /\ opening_proof = [root |-> commit, index |-> index]
    /\ opened_values = MmcsOpenBatchAll(index, commit).opened_values

\* A plausible slip: the extensions committed in natural row order
CommitShiftedBatchesNatural(polynomials, coset_shifts, c) ==
    MmcsCommit(ComputeCosetLdesBatches(polynomials, coset_shifts, c))

\* commit_shifted_batches
CommitShiftedBatches(polynomials, coset_shifts, c) ==
    LET ldes == ComputeCosetLdesBatches(polynomials, coset_shifts, c)
    IN  MmcsCommit([m \in 1..Len(ldes) |-> ReverseSliceIndexBits(ldes[m])])

\* commit_batches
CommitBatches(polynomials, c) ==
    CommitShiftedBatches(polynomials, [m \in 1..Len(polynomials) |-> 1], c)

\* BitReversedMatrixView::new
BitReversedMatrixView(m) == ReverseSliceIndexBits(m)

\* get_ldes
GetLdes(prover_data) ==
    [m \in 1..Len(prover_data) |-> BitReversedMatrixView(MmcsGetMatrices(prover_data)[m])]

\* the (batch, matrix, point) triples in the order of the nested loops; izip
\* stops at the shorter of mats and points
OpenTerms(mp) ==
    Concat([b \in 1..Len(mp) |->
        Concat([m \in 1..Min(Len(mp[b].mats), Len(mp[b].points)) |->
            [k \in 1..Len(mp[b].points[m]) |-> <<b, m, k>>]])])

TermMat(mp, t) == mp[t[1]].mats[t[2]]
TermPoint(mp, t) == mp[t[1]].points[t[2]][t[3]]

AllMats(mp) == Concat([b \in 1..Len(mp) |-> mp[b].mats])

\* A plausible slip: the largest coset left in natural order
DenomSubgroupNatural(max_log_height, coset_shift) ==
    CyclicSubgroupCoset(TwoAdicGenerator(max_log_height), coset_shift,
                        Pow2(max_log_height))

\* the largest subgroup coset used, in bitrev order
DenomSubgroup(max_log_height, coset_shift) ==
    ReverseSliceIndexBits(
        CyclicSubgroupCoset(TwoAdicGenerator(max_log_height), coset_shift,
                            Pow2(max_log_height)))

\* compute_inverse_denominators: for every opening point z the inverses of
\* x - z over the largest coset opened at z, in bit-reversed order
ComputeInverseDenominators(mp, coset_shift) ==
    LET terms == OpenTerms(mp)
        zs == {TermPoint(mp, terms[n]) : n \in 1..Len(terms)}
        max_log_height_for_point ==
            [z \in zs |->
                SetMax({Log2(MatHeight(TermMat(mp, terms[n]))) :
                            n \in {j \in 1..Len(terms) : TermPoint(mp, terms[j]) = z}})]
        max_log_height == SetMax({max_log_height_for_point[z] : z \in zs})
        subgroup == DenomSubgroup(max_log_height, coset_shift)
    IN  [z \in zs |->
            BatchMultiplicativeInverse(
                [i \in 1..Pow2(max_log_height_for_point[z]) |-> ESub(subgroup[i], z)])]

\* mat.split_rows(mat.height() >> log_blowup).0
LowCoset(mat, c) == SubSeq(mat, 1, Shr(MatHeight(mat), c.log_blowup))

\* ys_outer: the opened values of every (batch, matrix, point)
YsOuter(mp, c) ==
    [b \in 1..Len(mp) |->
        [m \in 1..Min(Len(mp[b].mats), Len(mp[b].points)) |->
            [k \in 1..Len(mp[b].points[m]) |->
                InterpolateCoset(BitReversedMatrixView(LowCoset(mp[b].mats[m], c)),
                                 Generator, mp[b].points[m][k])]]]

\* reduced_openings and num_reduced before the accumulation loop: a zero
\* codeword at the log height of every matrix
ReducedInit(mp) ==
    LET hs == UNION {{Log2(MatHeight(mp[b].mats[m])) :
                         m \in 1..Min(Len(mp[b].mats), Len(mp[b].points))} :
                     b \in 1..Len(mp)}
    IN  [ro |-> [h \in 0..(RoSlots - 1) |->
                    IF h \in hs THEN [i \in 1..Pow2(h) |-> 0] ELSE <<>>],
         num |-> [h \in 0..(RoSlots - 1) |-> 0]]

\* A plausible slip: the offset advanced by one per point, not by the width
NumReducedByOne(num, width) == num + 1

\* num_reduced[log_height] += mat.width()
NumReducedNext(num, width) == num + width

\* the accumulation loop of open_multi_batches after the first n terms
RECURSIVE ReducedAfter(_, _, _, _)
ReducedAfter(n, mp, alpha, c) ==
    IF n = 0 THEN ReducedInit(mp)
    ELSE
      LET acc == ReducedAfter(n - 1, mp, alpha, c)
          t == OpenTerms(mp)[n]
          mat == TermMat(mp, t)
          point == TermPoint(mp, t)
          log_height == Log2(MatHeight(mat))
          global_max_width ==
              SetMax({MatWidth(AllMats(mp)[j]) : j \in 1..Len(AllMats(mp))})
          alpha_reducer == ReducerNew(alpha, global_max_width, PcsPackWidth)
          inv_denoms == ComputeInverseDenominators(mp, Generator)[point].val
          ys == YsOuter(mp, c)[t[1]][t[2]][t[3]].val
          alpha_pow_offset == EPow(alpha, acc.num[log_height])
          sum_alpha_pows_times_y == ReduceExt(alpha_reducer, ys)
          reduced ==
              [i \in 1..MatHeight(mat) |->
                  EAdd(acc.ro[log_height][i],
                       EMul(EMul(inv_denoms[i], alpha_pow_offset),
                            ESub(ReduceBase(alpha_reducer, mat[i]).val,
                                 sum_alpha_pows_times_y)))]
      IN  [ro |-> [acc.ro EXCEPT ![log_height] = reduced],
           num |-> [acc.num EXCEPT ![log_height] = NumReducedNext(@, MatWidth(mat))]]

\* whether open_multi_batches gets through its interpolations and inversions
OpenSucceeds(mp, c) ==
    /\ OpenTerms(mp) # <<>>
    /\ \A n \in 1..Len(OpenTerms(mp)) :
         LET t == OpenTerms(mp)[n]
         IN  /\ YsOuter(mp, c)[t[1]][t[2]][t[3]].ok
             /\ ComputeInverseDenominators(mp, Generator)[TermPoint(mp, t)].ok

\* all_opened_values
AllOpenedValues(mp, c) ==
    [b \in 1..Len(mp) |->
        [m \in 1..Min(Len(mp[b].mats), Len(mp[b].points)) |->
            [k \in 1..Len(mp[b].points[m]) |-> YsOuter(mp, c)[b][m][k].val]]]

\* the reduced openings handed to prove: the buckets in use, tallest first
RECURSIVE ReducedInputs(_, _)
ReducedInputs(ro, h) ==
    IF h < 0 THEN <<>>
    ELSE (IF ro[h] = <<>> THEN <<>> ELSE <<ro[h]>>) \o ReducedInputs(ro, h - 1)

\* query_openings of one index: one BatchOpening per batch
PcsOpenInput(mp, index) ==
    LET global_max_height ==
            SetMax({MatHeight(AllMats(mp)[j]) : j \in 1..Len(AllMats(mp))})
        log_global_max_height == Log2(global_max_height)
    IN  [b \in 1..Len(mp) |->
            LET log_max_height == Log2(MmcsGetMaxHeight(mp[b].mats))
                bits_reduced == log_global_max_height - log_max_height
                reduced_index == Shr(index, bits_reduced)
            IN  MmcsOpenBatchAll(reduced_index, mp[b].mats)]

(***************************************************************************)
(* verify_multi_batches (two_adic_pcs.rs).  A step either continues        *)
(* ("ok"), returns an Mmcs error ("mmcs") or panics ("panic").  A usize    *)
(* difference that wrapped is kept as the negative number it is short of   *)
(* 2^64 by.                                                                *)
(***************************************************************************)
\* index >> bits on usize without overflow checks: the shift amount is taken
\* modulo the width
UShr(x, bits) == Shr(x, bits % UsizeBits)

\* A plausible slip: only the first column of every matrix enters the sum
MatQuotientsFirstColumn(mat_opening, mat_points, mat_at_z, x) ==
    Concat([k \in 1..Min(Len(mat_points), Len(mat_at_z)) |->
        [j \in 1..Min(1, Min(Len(mat_opening), Len(mat_at_z[k]))) |->
            [num |-> EAdd(ENeg(mat_at_z[k][j]), mat_opening[j]),
             den |-> EAdd(ENeg(mat_points[k]), x)]]])

\* the (numerator, denominator) pairs of one matrix in the order of the two
\* innermost loops
MatQuotients(mat_opening, mat_points, mat_at_z, x) ==
    Concat([k \in 1..Min(Len(mat_points), Len(mat_at_z)) |->
        [j \in 1..Min(Len(mat_opening), Len(mat_at_z[k])) |->
            [num |-> EAdd(ENeg(mat_at_z[k][j]), mat_opening[j]),
             den |-> EAdd(ENeg(mat_points[k]), x)]]])

\* ro[log_height] += alpha_pow[log_height] * quotient; alpha_pow[log_height] *= alpha
RECURSIVE AccumulateQuotients(_, _, _, _)
AccumulateQuotients(st, qs, alpha, log_height) ==
    IF qs = <<>> THEN st
    ELSE IF Head(qs).den = 0 THEN [st EXCEPT !.status = "panic"]
    ELSE AccumulateQuotients(
            [st EXCEPT !.ro[log_height] =
                          EAdd(@, EMul(st.alpha_pow[log_height],
                                       EMul(Head(qs).num, EInv(Head(qs).den)))),
                       !.alpha_pow[log_height] = EMul(@, alpha)],
            Tail(qs), alpha, log_height)

\* the body of the loop over the matrices of one batch
VerifyMat(st, mat_opening, mat_dims, mat_points, mat_at_z, e) ==
    IF ~IsPow2(mat_dims.height) THEN [st EXCEPT !.status = "panic"]
    ELSE
      LET log_height == Log2(mat_dims.height) + e.c.log_blowup
          bits_reduced == e.log_global_max_height - log_height
      IN  IF (bits_reduced < 0 /\ e.debug) \/ log_height > TwoAdicity
             \/ log_height >= RoSlots
          THEN [st EXCEPT !.status = "panic"]
          ELSE
            LET rev_reduced_index ==
                    ReverseBitsLen(UShr(e.index, bits_reduced), log_height)
                x == BMul(Generator, BPow(TwoAdicGenerator(log_height), rev_reduced_index))
            IN  AccumulateQuotients(st, MatQuotients(mat_opening, mat_points, mat_at_z, x),
                                    e.alpha, log_height)

RECURSIVE VerifyMats(_, _, _, _)
VerifyMats(st, m, bx, e) ==
    IF st.status # "ok"
       \/ m > Min(Min(Len(bx.opening.opened_values), Len(bx.dims)),
                  Min(Len(bx.points), Len(bx.at_z)))
    THEN st
    ELSE VerifyMats(VerifyMat(st, bx.opening.opened_values[m], bx.dims[m],
                              bx.points[m], bx.at_z[m], e),
                    m + 1, bx, e)

\* A plausible slip: the result of verify_batch ignored
VerifyBatchUnchecked(st, bx, e) ==
    IF bx.dims = <<>> THEN [st EXCEPT !.status = "panic"]
    ELSE VerifyMats(st, 1, bx, e)

\* the body of the loop over the batches of one query
VerifyBatch(st, bx, e) ==
    IF bx.dims = <<>> THEN [st EXCEPT !.status = "panic"]
    ELSE
      LET batch_max_height ==
              SetMax({bx.dims[m].height * Pow2(e.c.log_blowup) : m \in 1..Len(bx.dims)})
      IN  IF ~IsPow2(batch_max_height) THEN [st EXCEPT !.status = "panic"]
          ELSE
            LET bits_reduced == e.log_global_max_height - Log2(batch_max_height)
                reduced_index == UShr(e.index, bits_reduced)
            IN  IF bits_reduced < 0 /\ e.debug THEN [st EXCEPT !.status = "panic"]
                ELSE IF ~MmcsVerifyBatchAll(bx.commit, bx.dims, reduced_index,
                                            bx.opening.opened_values,
                                            bx.opening.opening_proof)
                THEN [st EXCEPT !.status = "mmcs"]
                ELSE VerifyMats(st, 1, bx, e)

RECURSIVE VerifyBatches(_, _, _, _, _)
VerifyBatches(st, b, query_opening, vi, e) ==
    IF st.status # "ok"
       \/ b > Min(Min(Len(query_opening), Len(vi.dims)),
                  Min(Len(vi.commits_and_points), Len(vi.values)))
    THEN st
    ELSE VerifyBatches(
            VerifyBatch(st, [opening |-> query_opening[b], dims |-> vi.dims[b],
                             commit |-> vi.commits_and_points[b].commit,
                             points |-> vi.commits_and_points[b].points,
                             at_z |-> vi.values[b]], e),
            b + 1, query_opening, vi, e)

\* the reduced openings of one query: ro and alpha_pow start as zeros and ones
QueryReducedOpenings(query_opening, index, vi, alpha, c, dbg) ==
    VerifyBatches([status |-> "ok",
                   ro |-> [h \in 0..(RoSlots - 1) |-> 0],
                   alpha_pow |-> [h \in 0..(RoSlots - 1) |-> 1]],
                  1, query_opening, vi,
                  [index |-> index, alpha |-> alpha, c |-> c, debug |-> dbg,
                   log_global_max_height |->
                       Len(vi.proof.fri_proof.commit_phase_commits) + c.log_blowup])

\* A plausible slip: the Mmcs error wrapped as a FRI error
OpeningsErrorAsFri(status) ==
    IF status = "mmcs" THEN "FriError" ELSE "panic"

\* .map_err(VerificationError::InputMmcsError)? on the collected openings; a
\* panic is no VerificationError
OpeningsError(status) ==
    IF status = "mmcs" THEN "InputMmcsError" ELSE "panic"

\* the collect over the queries: the first failure ends it
RECURSIVE ReducedOpeningsOfQueries(_, _, _, _, _, _)
ReducedOpeningsOfQueries(q, vi, indices, alpha, c, dbg) ==
    IF q > Min(Len(vi.proof.query_openings), Len(indices))
    THEN [status |-> "ok", ros |-> <<>>]
    ELSE
      LET one == QueryReducedOpenings(vi.proof.query_openings[q], indices[q],
                                      vi, alpha, c, dbg)
          rest == ReducedOpeningsOfQueries(q + 1, vi, indices, alpha, c, dbg)
      IN  IF one.status # "ok" THEN [status |-> one.status, ros |-> <<>>]
          ELSE IF rest.status # "ok" THEN rest
          ELSE [status |-> "ok", ros |-> <<one.ro>> \o rest.ros]

(***************************************************************************)
(* The FRI verifier, from its description: it mirrors the prover.          *)
(***************************************************************************)
\* the height the verifier takes the first codeword to have
VerifierLogMaxHeight(fri_proof, c) ==
    Len(fri_proof.commit_phase_commits) + c.log_blowup + c.log_final_poly_len

\* the fold of one query across the rounds from round r on
RECURSIVE FoldQuery(_, _, _, _, _, _)
FoldQuery(st, r, fri_proof, steps, betas, ro) ==
    IF ~st.ok \/ r > Len(fri_proof.commit_phase_commits) THEN st
    ELSE
      LET log_folded_height == st.log_height - 1
          index_sibling == IF st.index % 2 = 0 THEN st.index + 1 ELSE st.index - 1
          index_pair == st.index \div 2
          evals == IF index_sibling % 2 = 1
                   THEN <<st.folded_eval, steps[r].sibling_value>>
                   ELSE <<steps[r].sibling_value, st.folded_eval>>
      IN  IF ~MmcsVerifyBatch(fri_proof.commit_phase_commits[r], 2,
                              Pow2(log_folded_height), index_pair, <<evals>>,
                              steps[r].opening_proof)
          THEN [st EXCEPT !.ok = FALSE]
          ELSE FoldQuery(
                  [ok |-> TRUE,
                   folded_eval |-> EAdd(FoldRow(index_pair, log_folded_height,
                                                betas[r], evals),
                                        ro[log_folded_height]),
                   index |-> index_pair,
                   log_height |-> log_folded_height],
                  r + 1, fri_proof, steps, betas, ro)

\* verify_query and the comparison with the final polynomial
VerifyQuery(c, fri_proof, index, query_proof, betas, ro) ==
    LET log_max_height == VerifierLogMaxHeight(fri_proof, c)
        steps == query_proof.commit_phase_openings
    IN  /\ Len(steps) = Len(fri_proof.commit_phase_commits)
        /\ LET st == FoldQuery([ok |-> TRUE, folded_eval |-> ro[log_max_height],
                                index |-> index, log_height |-> log_max_height],
                               1, fri_proof, steps, betas, ro)
               x == BPow(TwoAdicGenerator(st.log_height),
                         ReverseBitsLen(st.index, st.log_height))
           IN  st.ok /\ PolyEval(fri_proof.final_poly, x) = st.folded_eval

\* verify_challenges: every query of the zip of indices, query proofs and
\* reduced openings
VerifyChallenges(c, fri_proof, chal, reduced_openings) ==
    \A q \in 1..Min(Min(Len(chal.indices), Len(fri_proof.query_proofs)),
                    Len(reduced_openings)) :
        VerifyQuery(c, fri_proof, chal.indices[q], fri_proof.query_proofs[q],
                    chal.betas, reduced_openings[q])

(***************************************************************************)
(* FRI prover (prover.rs)                                                  *)
(***************************************************************************)
Blowup(c) == Pow2(c.log_blowup)
FinalPolyLen(c) == Pow2(c.log_final_poly_len)

IsSortedDesc(ins) == \A i \in 1..(Len(ins) - 1) : Len(ins[i]) >= Len(ins[i + 1])

\* A plausible slip: only emptiness asserted
ProveAssertsHoldNoSort(ins, c) ==
    /\ ins # <<>>
    /\ c.log_final_poly_len > 0 =>
          Log2(Len(ins[Len(ins)])) > c.log_final_poly_len + c.log_blowup

\* the assertions at the head of prove
ProveAssertsHold(ins, c) ==
    /\ ins # <<>>
    /\ IsSortedDesc(ins)
    /\ IsPow2(Len(ins[1]))
    /\ IsPow2(Len(ins[Len(ins)]))
    /\ c.log_final_poly_len > 0 =>
          Log2(Len(ins[Len(ins)])) > c.log_final_poly_len + c.log_blowup

\* A plausible slip: beta drawn before the commitment is observed
BetaHistoryUnobserved(tr, commit) == tr

\* challenger.observe(commit.clone()): the transcript beta is sampled from
BetaHistory(tr, commit) == Append(tr, ObsCommit(commit))

\* A plausible slip: one round too many
LoopContinuesAtThreshold(f, c) == Len(f) >= Blowup(c) * FinalPolyLen(c)

\* the condition of the while loop of commit_phase
LoopContinues(f, c) == Len(f) > Blowup(c) * FinalPolyLen(c)

\* A plausible slip: next() in place of next_if, the zip stopping at the shorter
MixNextAnyLength(f, ins, tk) ==
    IF tk < Len(ins)
    THEN [folded |-> [i \in 1..Len(f) |->
                        IF i <= Len(ins[tk + 1]) THEN EAdd(f[i], ins[tk + 1][i]) ELSE f[i]],
          taken |-> tk + 1]
    ELSE [folded |-> f, taken |-> tk]

\* inputs_iter.next_if(|v| v.len() == folded.len()) and the element-wise add
MixNext(f, ins, tk) ==
    IF tk < Len(ins) /\ Len(ins[tk + 1]) = Len(f)
    THEN [folded |-> [i \in 1..Len(f) |-> EAdd(f[i], ins[tk + 1][i])], taken |-> tk + 1]
    ELSE [folded |-> f, taken |-> tk]

\* skip(1 << config.log_final_poly_len)
TailStart(c) == Pow2(c.log_final_poly_len)

TailIsZero(fp, c) == \A i \in 1..Len(fp) : i > TailStart(c) => fp[i] = 0

\* A plausible slip: only the coefficients below final_poly_len observed
ObserveFinalPolyHead(tr, fp) ==
    ObserveAll(tr, SubSeq(fp, 1, Min(Len(fp), Pow2(cfg.log_final_poly_len))))

\* for &x in &final_poly { challenger.observe_ext_element(x) }
ObserveFinalPoly(tr, fp) == ObserveAll(tr, fp)

\* A plausible slip: the queried position's own value recorded
AnswerQueryOwnValue(prover_data, index) ==
    [r \in 1..Len(prover_data) |->
        LET index_i == index \div Pow2(r - 1)
            index_pair == index_i \div 2
            opened == MmcsOpenBatch(index_pair, prover_data[r])
        IN  [sibling_value |-> opened.opened_rows[1][(index_i % 2) + 1],
             opening_proof |-> opened.opening_proof]]

\* answer_query: one CommitPhaseProofStep per round
AnswerQuery(prover_data, index) ==
    [r \in 1..Len(prover_data) |->
        LET index_i == index \div Pow2(r - 1)
            index_i_sibling == IF index_i % 2 = 0 THEN index_i + 1 ELSE index_i - 1
            index_pair == index_i \div 2
            opened == MmcsOpenBatch(index_pair, prover_data[r])
        IN  [sibling_value |-> opened.opened_rows[1][(index_i_sibling % 2) + 1],
             opening_proof |-> opened.opening_proof]]

EmptySlot == [filled |-> FALSE, steps |-> <<>>]

FirstEmpty(slots) == CHOOSE k \in 1..Len(slots) :
    ~slots[k].filled /\ \A j \in 1..(k - 1) : slots[j].filled

\* A plausible slip: results gathered in the order the workers finish
ParCollectArrival(slots, k, steps) ==
    [slots EXCEPT ![FirstEmpty(slots)] = [filled |-> TRUE, steps |-> steps]]

\* into_par_iter().map(..).collect(): the result of item k lands at position k
ParCollect(slots, k, steps) ==
    [slots EXCEPT ![k] = [filled |-> TRUE, steps |-> steps]]

\* A plausible slip: the openings paired with the input proofs back to front
ZipQueryProofsReversed(ips, slots) ==
    [k \in 1..Min(Len(ips), Len(slots)) |->
        [input_proof |-> ips[k],
         commit_phase_openings |-> slots[Len(slots) + 1 - k].steps]]

\* input_proofs.into_iter().zip(commit_phase_openings).map(QueryProof {..})
ZipQueryProofs(ips, slots) ==
    [k \in 1..Min(Len(ips), Len(slots)) |->
        [input_proof |-> ips[k],
         commit_phase_openings |-> slots[k].steps]]

\* the open_input callback of a generic caller: an opaque proof for the index
OpenInput(index) == <<index>>

ProverIdle ==
    /\ pc = "idle"
    /\ folded = <<>>
    /\ taken = 0
    /\ commits = <<>>
    /\ data = <<>>
    /\ final_poly = <<>>
    /\ pow_witness = 0
    /\ query_indices = <<>>
    /\ input_proofs = <<>>
    /\ answers = <<>>
    /\ answered = {}
    /\ proof = <<>>
    /\ transcript = <<>>

PcsIdle ==
    /\ scn = <<>>
    /\ pdata = <<>>
    /\ all_opened_values = <<>>
    /\ vin = <<>>
    /\ tamper = [kind |-> "none"]
    /\ ppc = "idle"
    /\ vtranscript = <<>>
    /\ vchal = <<>>
    /\ vro = <<>>
    /\ vresult = "none"
    /\ result0 = "none"

FriIdle ==
    /\ cfg = [log_blowup |-> 0, log_final_poly_len |-> 0, num_queries |-> 0,
              proof_of_work_bits |-> 0, extra_query_index_bits |-> 0]
    /\ debug = FALSE
    /\ inputs = <<>>
    /\ ProverIdle
    /\ oracle = <<>>
    /\ run = 0
    /\ proof1 = <<>>
    /\ PcsIdle

(***************************************************************************)
(* Bounds of the harnesses                                                 *)
(***************************************************************************)
MaxReducerWidth == 5
MaxInterpLog == 2

PackWidths == {1, 2, 4}
AlphaSet == {0, 3, Ext(2, 1)}
BaseSample == {1, P - 1}
ExtSample == {1, Ext(3, 2)}
CoefSet == {0, 1, 5}
ShiftSet == {1, Generator, 3}
PointSet == {2, 50, Ext(3, 1)}

(***************************************************************************)
(* PowersReducer harness (test_powers_reducer)                             *)
(***************************************************************************)
RdIdle == [pc |-> "idle"]

PrIdle == [pc |-> "idle"]

RdInit ==
    /\ rd = RdIdle
    /\ ip = [pc |-> "idle"]
    /\ pr = PrIdle
    /\ FriIdle

RdNew ==
    /\ rd.pc = "idle"
    /\ \E alpha \in AlphaSet, n \in 0..MaxReducerWidth, w \in PackWidths :
         rd' = [pc |-> "built", alpha |-> alpha, n |-> n,
                r |-> ReducerNew(alpha, n, w)]
    /\ UNCHANGED <<ip, pr, friVars>>

RdReduceExt ==
    /\ rd.pc = "built"
    /\ \E len \in 0..rd.n : \E xs \in SeqsOfLen(ExtSample, len) :
         rd' = [rd EXCEPT !.pc = "ext"] @@ [xs |-> xs, out |-> [ok |-> TRUE, val |-> ReduceExt(rd.r, xs)]]
    /\ UNCHANGED <<ip, pr, friVars>>

RdReduceBase ==
    /\ rd.pc = "built"
    /\ \E len \in 0..rd.n : \E xs \in SeqsOfLen(BaseSample, len) :
         rd' = [rd EXCEPT !.pc = "base"] @@ [xs |-> xs, out |-> ReduceBase(rd.r, xs)]
    /\ UNCHANGED <<ip, pr, friVars>>

NextReducer == RdNew \/ RdReduceExt \/ RdReduceBase

SpecReducer == RdInit /\ [][NextReducer]_vars

(***************************************************************************)
(* Interpolation harness (test_interpolate_subgroup / test_interpolate_coset)*)
(***************************************************************************)
IpInit ==
    /\ rd = RdIdle
    /\ ip = [pc |-> "idle"]
    /\ pr = PrIdle
    /\ FriIdle

\* the caller's table: polynomials of degree below the coset size, on shift*<g>
IpTable ==
    /\ ip.pc = "idle"
    /\ \E k \in 0..MaxInterpLog, shift \in ShiftSet :
       \E p1 \in SeqsOfLen(CoefSet, Pow2(k)) :
         ip' = [pc |-> "table", k |-> k, shift |-> shift,
                polys |-> <<p1, [i \in 1..Pow2(k) |-> (i * i) % P]>>,
                evals |-> CosetEvals(<<p1, [i \in 1..Pow2(k) |-> (i * i) % P]>>, k, shift)]
    /\ UNCHANGED <<rd, pr, friVars>>

IpCoset ==
    /\ ip.pc = "table"
    /\ \E z \in PointSet \cup
                {CyclicSubgroupCoset(TwoAdicGenerator(ip.k), ip.shift, Pow2(ip.k))[i] :
                    i \in 1..Pow2(ip.k)} :
         ip' = [ip EXCEPT !.pc = "coset"] @@
               [point |-> z, out |-> InterpolateCoset(ip.evals, ip.shift, z)]
    /\ UNCHANGED <<rd, pr, friVars>>

IpSubgroup ==
    /\ ip.pc = "table"
    /\ ip.shift = 1
    /\ \E z \in PointSet :
         ip' = [ip EXCEPT !.pc = "subgroup"] @@
               [point |-> z, out |-> InterpolateSubgroup(ip.evals, z)]
    /\ UNCHANGED <<rd, pr, friVars>>

NextInterp == IpTable \/ IpCoset \/ IpSubgroup

SpecInterp == IpInit /\ [][NextInterp]_vars

(***************************************************************************)
(* PublicRow (uni-stark/src/public.rs): a vector of public values seen as  *)
(* a matrix                                                                *)
(***************************************************************************)
MaxPublicWidth == 3
MaxPublicRowIndex == 2

PublicValueSet == {0, 1, P - 1}

\* Matrix::width of PublicRow
PublicRowWidth(values) == Len(values)

\* Matrix::height of PublicRow
PublicRowHeight(values) == 1

\* Matrix::row of PublicRow: assert_eq!(_r, 1), then the stored vector; ok is
\* FALSE when the assertion panics
PublicRowRow(values, r) ==
    IF r = 1 THEN [ok |-> TRUE, val |-> values] ELSE [ok |-> FALSE, val |-> <<>>]

\* PublicValues::interpolate of PublicRow: the stored values, lifted
PublicRowInterpolate(values, zeta, offset) == values

PrInit ==
    /\ rd = RdIdle
    /\ ip = [pc |-> "idle"]
    /\ pr = PrIdle
    /\ FriIdle

\* PublicRow(values)
PrNew ==
    /\ pr.pc = "idle"
    /\ \E len \in 0..MaxPublicWidth : \E values \in SeqsOfLen(PublicValueSet, len) :
         pr' = [pc |-> "built", values |-> values]
    /\ UNCHANGED <<rd, ip, friVars>>

\* a call of row(r)
PrRow ==
    /\ pr.pc \in {"built", "row", "interpolate"}
    /\ \E r \in 0..MaxPublicRowIndex :
         pr' = [pc |-> "row", values |-> pr.values, r |-> r,
                height |-> PublicRowHeight(pr.values),
                width |-> PublicRowWidth(pr.values),
                out |-> PublicRowRow(pr.values, r)]
    /\ UNCHANGED <<rd, ip, friVars>>

\* a call of interpolate(zeta, offset)
PrInterpolate ==
    /\ pr.pc \in {"built", "row", "interpolate"}
    /\ \E zeta \in PointSet, offset \in 0..1 :
         pr' = [pc |-> "interpolate", values |-> pr.values, zeta |-> zeta,
                offset |-> offset,
                out |-> [ok |-> TRUE,
                         val |-> PublicRowInterpolate(pr.values, zeta, offset)]]
    /\ UNCHANGED <<rd, ip, friVars>>

NextPublic == PrNew \/ PrRow \/ PrInterpolate

SpecPublic == PrInit /\ [][NextPublic]_vars

(***************************************************************************)
(* prove, step by step                                                     *)
(***************************************************************************)
MaxLogLen == 3
MaxInputs == 2
NumQueries == 2
PowBits == 1

BetaSet == {2, Ext(5, 1)}
WitnessSet == {3, 9}
LogBlowups == {0, 1}
LogFinalPolyLens == {0, 1}
ExtraBits == {0, 1}

\* the codeword of a polynomial: its values on the subgroup of size 2^log_len,
\* in bit-reversed order
Codeword(coeffs, log_len) ==
    LET g == TwoAdicGenerator(log_len)
    IN  [j \in 1..Pow2(log_len) |->
            PolyEval(coeffs, BPow(g, ReverseBitsLen(j - 1, log_len)))]

\* the degree bound claimed of a codeword of length 2^log_len
DegreeBound(log_len, c) == Pow2(log_len) \div Blowup(c)

InputCoeffs(kind, log_len, c) ==
    CASE kind = "low"  -> [i \in 1..DegreeBound(log_len, c) |-> Ext(i + 1, i - 1)]
      [] kind = "high" -> [i \in 1..Pow2(log_len) |-> Ext(i + 3, i % 2)]

InputKinds == {"low", "high"}

\* input lists of every shape (empty, unsorted and equal lengths included), all
\* codewords of a list of one kind
InputLists(c) ==
    {[i \in 1..Len(ls) |-> Codeword(InputCoeffs(k, ls[i], c), ls[i])] :
        k \in InputKinds,
        ls \in UNION {SeqsOfLen(0..MaxLogLen, n) : n \in 0..MaxInputs}}

\* the values sample_bits(bits) is drawn from: the two lowest and the two highest
QuerySample(bits) ==
    {i \in 0..(Pow2(bits) - 1) : i < 2 \/ i >= Pow2(bits) - 2}

\* whether a codeword is the evaluation table of a polynomial below its degree bound
IsLowDegree(cw, c) ==
    LET coeffs == Idft(ReverseSliceIndexBits(cw))
    IN  \A i \in 1..Len(cw) : i > DegreeBound(Log2(Len(cw)), c) => coeffs[i] = 0

FriInit ==
    /\ rd = RdIdle
    /\ ip = [pc |-> "idle"]
    /\ pr = PrIdle
    /\ cfg \in [log_blowup : LogBlowups, log_final_poly_len : LogFinalPolyLens,
                num_queries : {NumQueries}, proof_of_work_bits : {PowBits},
                extra_query_index_bits : ExtraBits]
    /\ debug \in BOOLEAN
    /\ inputs \in InputLists(cfg)
    /\ pc = "start"
    /\ folded = <<>>
    /\ taken = 0
    /\ commits = <<>>
    /\ data = <<>>
    /\ final_poly = <<>>
    /\ pow_witness = 0
    /\ query_indices = <<>>
    /\ input_proofs = <<>>
    /\ answers = <<>>
    /\ answered = {}
    /\ proof = <<>>
    /\ transcript = <<>>
    /\ oracle = <<>>
    /\ run = 1
    /\ proof1 = <<>>
    /\ PcsIdle

\* prove, lines 33-46: the assertions, then commit_phase takes the first input
ProveStart ==
    /\ pc = "start"
    /\ IF ProveAssertsHold(inputs, cfg)
       THEN /\ pc' = "commit"
            /\ folded' = inputs[1]
            /\ taken' = 1
       ELSE /\ pc' = "panic"
            /\ UNCHANGED <<folded, taken>>
    /\ UNCHANGED <<commits, data, final_poly, pow_witness, query_indices,
                   input_proofs, answers, answered, proof, transcript>>
    /\ UNCHANGED <<harnessVars, cfg, debug, inputs, oracle, run, proof1, pcsVars>>

\* commit_phase, one iteration of the while loop
CommitRound ==
    /\ pc = "commit"
    /\ LoopContinues(folded, cfg)
    /\ LET leaves == RowMajorMatrix(folded, 2)
           c == MmcsCommitMatrix(leaves)
           tr1 == BetaHistory(transcript, c.commit)
       IN  \E beta \in SampleChoices(tr1, "sample", 0, BetaSet) :
             LET mixed == MixNext(FoldMatrix(beta, c.prover_data), inputs, taken)
             IN  /\ transcript' = Append(tr1, Smp("sample", 0, beta))
                 /\ commits' = Append(commits, c.commit)
                 /\ data' = Append(data, c.prover_data)
                 /\ folded' = mixed.folded
                 /\ taken' = mixed.taken
    /\ UNCHANGED <<pc, final_poly, pow_witness, query_indices, input_proofs,
                   answers, answered, proof>>
    /\ UNCHANGED <<harnessVars, cfg, debug, inputs, oracle, run, proof1, pcsVars>>

\* commit_phase after the loop: the final polynomial, its debug assertion, and
\* the observation of its coefficients
CommitFinish ==
    /\ pc = "commit"
    /\ ~LoopContinues(folded, cfg)
    /\ LET fp == Idft(ReverseSliceIndexBits(folded))
       IN  IF debug /\ ~TailIsZero(fp, cfg)
           THEN /\ pc' = "panic"
                /\ UNCHANGED <<final_poly, transcript>>
           ELSE /\ pc' = "grind"
                /\ final_poly' = fp
                /\ transcript' = ObserveFinalPoly(transcript, fp)
    /\ UNCHANGED <<folded, taken, commits, data, pow_witness, query_indices,
                   input_proofs, answers, answered, proof>>
    /\ UNCHANGED <<harnessVars, cfg, debug, inputs, oracle, run, proof1, pcsVars>>

\* challenger.grind(config.proof_of_work_bits)
Grind ==
    /\ pc = "grind"
    /\ \E w \in SampleChoices(transcript, "pow", cfg.proof_of_work_bits, WitnessSet) :
         /\ pow_witness' = w
         /\ transcript' = Append(transcript, Smp("pow", cfg.proof_of_work_bits, w))
    /\ pc' = "query"
    /\ UNCHANGED <<folded, taken, commits, data, final_poly, query_indices,
                   input_proofs, answers, answered, proof>>
    /\ UNCHANGED <<harnessVars, cfg, debug, inputs, oracle, run, proof1, pcsVars>>

QueryBits == Log2(Len(inputs[1])) + ExtraQueryIndexBits

\* one challenger.sample_bits(log_max_height + extra_query_index_bits)
SampleQuery ==
    /\ pc = "query"
    /\ Len(query_indices) < cfg.num_queries
    /\ \E idx \in SampleChoices(transcript, "sample_bits", QueryBits,
                                QuerySample(QueryBits)) :
         /\ query_indices' = Append(query_indices, idx)
         /\ transcript' = Append(transcript, Smp("sample_bits", QueryBits, idx))
    /\ UNCHANGED <<pc, folded, taken, commits, data, final_poly, pow_witness,
                   input_proofs, answers, answered, proof>>
    /\ UNCHANGED <<harnessVars, cfg, debug, inputs, oracle, run, proof1, pcsVars>>

\* open_input of every index, on the driving thread, before the workers start
OpenInputs ==
    /\ pc = "query"
    /\ Len(query_indices) = cfg.num_queries
    /\ input_proofs' = [k \in 1..Len(query_indices) |-> OpenInput(query_indices[k])]
    /\ answers' = [k \in 1..Len(query_indices) |-> EmptySlot]
    /\ answered' = {}
    /\ pc' = "answer"
    /\ UNCHANGED <<folded, taken, commits, data, final_poly, pow_witness,
                   query_indices, proof, transcript>>
    /\ UNCHANGED <<harnessVars, cfg, debug, inputs, oracle, run, proof1, pcsVars>>

\* one parallel worker: answer_query for the k-th index
AnswerWorker(k) ==
    /\ pc = "answer"
    /\ k \in 1..Len(query_indices)
    /\ k \notin answered
    /\ answers' = ParCollect(answers, k,
                     AnswerQuery(data, Shr(query_indices[k], ExtraQueryIndexBits)))
    /\ answered' = answered \cup {k}
    /\ UNCHANGED <<pc, folded, taken, commits, data, final_poly, pow_witness,
                   query_indices, input_proofs, proof, transcript>>
    /\ UNCHANGED <<harnessVars, cfg, debug, inputs, oracle, run, proof1, pcsVars>>

\* the zip of input proofs and commit-phase openings, and the returned FriProof
Assemble ==
    /\ pc = "answer"
    /\ answered = 1..Len(query_indices)
    /\ proof' = [commit_phase_commits |-> commits,
                 query_proofs |-> ZipQueryProofs(input_proofs, answers),
                 final_poly |-> final_poly,
                 pow_witness |-> pow_witness]
    /\ pc' = "done"
    /\ UNCHANGED <<folded, taken, commits, data, final_poly, pow_witness,
                   query_indices, input_proofs, answers, answered, transcript>>
    /\ UNCHANGED <<harnessVars, cfg, debug, inputs, oracle, run, proof1, pcsVars>>

\* a second run of prove on the same inputs, config and transcript seed
Rerun ==
    /\ pc = "done"
    /\ run = 1
    /\ run' = 2
    /\ proof1' = proof
    /\ oracle' = transcript
    /\ pc' = "start"
    /\ folded' = <<>>
    /\ taken' = 0
    /\ commits' = <<>>
    /\ data' = <<>>
    /\ final_poly' = <<>>
    /\ pow_witness' = 0
    /\ query_indices' = <<>>
    /\ input_proofs' = <<>>
    /\ answers' = <<>>
    /\ answered' = {}
    /\ proof' = <<>>
    /\ transcript' = <<>>
    /\ UNCHANGED <<harnessVars, cfg, debug, inputs, pcsVars>>

ProveNext ==
    \/ ProveStart
    \/ CommitRound
    \/ CommitFinish
    \/ Grind
    \/ SampleQuery
    \/ OpenInputs
    \/ \E k \in 1..NumQueries : AnswerWorker(k)
    \/ Assemble

SpecFri == FriInit /\ [][ProveNext]_vars

NextRerun == ProveNext \/ Rerun

\* the repeated run is of the two-adic folding rule, which has no extra index bits
RerunInit ==
    /\ FriInit
    /\ ExtraQueryIndexBits = 0

SpecRerun == RerunInit /\ [][NextRerun]_vars

(***************************************************************************)
(* The PCS round trip: commit_batches, open_multi_batches (with prove),    *)
(* verify_multi_batches on what the prover returned, then on an altered    *)
(* copy of it.                                                             *)
(***************************************************************************)
PcsNumQueries == 1
PcsLogBlowup == 1

\* opening points outside every evaluation domain
PcsPoints == <<Ext(3, 1), 11>>
Z1 == PcsPoints[1]
Z2 == PcsPoints[2]

\* the values on the subgroup of the polynomial committed as column col of
\* matrix m of batch b
ScnCoeffs(b, m, log_height, width) ==
    [col \in 1..width |->
        [i \in 1..Pow2(log_height) |-> (7 * i + 3 * col + 11 * m + 5 * b) % P]]

ScnMatrix(b, m, log_height, width) ==
    CosetEvals(ScnCoeffs(b, m, log_height, width), log_height, 1)

\* one batch of two matrices of different heights, the second opened at two points
ScnMixed ==
    [polys |-> << <<ScnMatrix(1, 1, 2, 1), ScnMatrix(1, 2, 1, 2)>> >>,
     points |-> << << <<Z1>>, <<Z1, Z2>> >> >>]

\* two batches, the second of constant polynomials
ScnTwoBatches ==
    [polys |-> << <<ScnMatrix(1, 1, 1, 1)>>, <<ScnMatrix(2, 1, 0, 2)>> >>,
     points |-> << << <<Z1>> >>, << <<Z2>> >> >>]

\* one matrix tall enough for a final polynomial of two coefficients
ScnTall ==
    [polys |-> << <<ScnMatrix(1, 1, 2, 2)>> >>,
     points |-> << << <<Z1>> >> >>]

Scenarios == {ScnMixed, ScnTwoBatches, ScnTall}

\* mats_and_points of open_multi_batches
MatsAndPoints ==
    [b \in 1..Len(pdata) |->
        [mats |-> MmcsGetMatrices(pdata[b]), points |-> scn.points[b]]]

NoTamper == [kind |-> "none", a |-> 0, b |-> 0, c |-> 0, d |-> 0]

VerifierReset ==
    /\ vtranscript' = <<>>
    /\ vchal' = [alpha |-> 0, betas |-> <<>>, indices |-> <<>>]
    /\ vro' = <<>>
    /\ vresult' = "none"

PcsInit ==
    /\ rd = RdIdle
    /\ ip = [pc |-> "idle"]
    /\ pr = PrIdle
    /\ cfg \in [log_blowup : {PcsLogBlowup}, log_final_poly_len : LogFinalPolyLens,
                num_queries : {PcsNumQueries}, proof_of_work_bits : {PowBits},
                extra_query_index_bits : {0}]
    /\ debug \in BOOLEAN
    /\ inputs = <<>>
    /\ ProverIdle
    /\ oracle = <<>>
    /\ run = 1
    /\ proof1 = <<>>
    /\ scn \in Scenarios
    /\ pdata = <<>>
    /\ all_opened_values = <<>>
    /\ vin = <<>>
    /\ tamper = NoTamper
    /\ ppc = "commit"
    /\ vtranscript = <<>>
    /\ vchal = [alpha |-> 0, betas |-> <<>>, indices |-> <<>>]
    /\ vro = <<>>
    /\ vresult = "none"
    /\ result0 = "none"

\* commit_batches of every batch
PcsCommit ==
    /\ ppc = "commit"
    /\ pdata' = [b \in 1..Len(scn.polys) |-> CommitBatches(scn.polys[b], cfg).prover_data]
    /\ ppc' = "open"
    /\ UNCHANGED <<harnessVars, cfg, debug, inputs, proverVars, oracle, run, proof1>>
    /\ UNCHANGED <<scn, all_opened_values, vin, tamper, vtranscript, vchal, vro, vresult, result0>>

\* open_multi_batches up to its call of prove
PcsOpen ==
    /\ ppc = "open"
    /\ \E alpha \in SampleChoices(transcript, "sample", 0, AlphaSet) :
         /\ transcript' = Append(transcript, Smp("sample", 0, alpha))
         /\ IF OpenSucceeds(MatsAndPoints, cfg)
            THEN /\ all_opened_values' = AllOpenedValues(MatsAndPoints, cfg)
                 /\ inputs' = ReducedInputs(
                                 ReducedAfter(Len(OpenTerms(MatsAndPoints)), MatsAndPoints,
                                              alpha, cfg).ro,
                                 RoSlots - 1)
                 /\ pc' = "start"
                 /\ ppc' = "prove"
            ELSE /\ ppc' = "panic"
                 /\ UNCHANGED <<all_opened_values, inputs, pc>>
    /\ UNCHANGED <<harnessVars, cfg, debug, oracle, run, proof1>>
    /\ UNCHANGED <<folded, taken, commits, data, final_poly, pow_witness,
                   query_indices, input_proofs, answers, answered, proof>>
    /\ UNCHANGED <<scn, pdata, vin, tamper, vtranscript, vchal, vro, vresult, result0>>

\* open_multi_batches after prove: the query openings; the proof, the opened
\* values, the commitments, the points and the dimensions go to the verifier
PcsFinish ==
    /\ ppc = "prove"
    /\ pc = "done"
    /\ vin' = [commits_and_points |->
                  [b \in 1..Len(pdata) |->
                      [commit |-> pdata[b], points |-> scn.points[b]]],
               dims |-> [b \in 1..Len(scn.polys) |->
                           [m \in 1..Len(scn.polys[b]) |->
                               [width |-> MatWidth(scn.polys[b][m]),
                                height |-> MatHeight(scn.polys[b][m])]]],
               values |-> all_opened_values,
               proof |-> [fri_proof |-> proof,
                          query_openings |->
                              [q \in 1..Len(query_indices) |->
                                  PcsOpenInput(MatsAndPoints, query_indices[q])]]]
    /\ oracle' = transcript
    /\ ppc' = "alpha"
    /\ UNCHANGED <<harnessVars, cfg, debug, inputs, proverVars, run, proof1>>
    /\ UNCHANGED <<scn, pdata, all_opened_values, tamper, vtranscript, vchal, vro, vresult, result0>>

\* verify_multi_batches: the batch combination challenge
VAlpha ==
    /\ ppc = "alpha"
    /\ \E a \in SampleChoices(vtranscript, "sample", 0, AlphaSet) :
         /\ vchal' = [vchal EXCEPT !.alpha = a]
         /\ vtranscript' = Append(vtranscript, Smp("sample", 0, a))
    /\ ppc' = "betas"
    /\ UNCHANGED <<harnessVars, cfg, debug, inputs, proverVars, oracle, run, proof1>>
    /\ UNCHANGED <<scn, pdata, all_opened_values, vin, tamper, vro, vresult, result0>>

\* verify_shape_and_sample_challenges: one commitment observed, its beta sampled
VBeta ==
    /\ ppc = "betas"
    /\ Len(vchal.betas) < Len(vin.proof.fri_proof.commit_phase_commits)
    /\ LET tr1 == Append(vtranscript,
                         ObsCommit(vin.proof.fri_proof.commit_phase_commits[
                                       Len(vchal.betas) + 1]))
       IN  \E beta \in SampleChoices(tr1, "sample", 0, BetaSet) :
             /\ vchal' = [vchal EXCEPT !.betas = Append(@, beta)]
             /\ vtranscript' = Append(tr1, Smp("sample", 0, beta))
    /\ UNCHANGED <<harnessVars, cfg, debug, inputs, proverVars, oracle, run, proof1>>
    /\ UNCHANGED <<scn, pdata, all_opened_values, vin, tamper, ppc, vro, vresult, result0>>

\* verify_shape_and_sample_challenges: the final polynomial observed, the number
\* of query proofs and the proof-of-work witness checked
VFinal ==
    /\ ppc = "betas"
    /\ Len(vchal.betas) = Len(vin.proof.fri_proof.commit_phase_commits)
    /\ LET fp == vin.proof.fri_proof
           tr1 == ObserveAll(vtranscript, fp.final_poly)
           bits == cfg.proof_of_work_bits
       IN  \E valid \in IF Forced(tr1, "pow", bits)
                        THEN {oracle[Len(tr1) + 1][3][1][1] = fp.pow_witness}
                        ELSE BOOLEAN :
             IF Len(fp.query_proofs) # cfg.num_queries \/ ~valid
             THEN /\ vresult' = "FriError"
                  /\ ppc' = "done"
                  /\ vtranscript' = tr1
             ELSE /\ vtranscript' = Append(tr1, Smp("pow", bits, fp.pow_witness))
                  /\ ppc' = "indices"
                  /\ UNCHANGED vresult
    /\ UNCHANGED <<harnessVars, cfg, debug, inputs, proverVars, oracle, run, proof1>>
    /\ UNCHANGED <<scn, pdata, all_opened_values, vin, tamper, vchal, vro, result0>>

\* verify_shape_and_sample_challenges: one query index sampled
VIndex ==
    /\ ppc = "indices"
    /\ Len(vchal.indices) < cfg.num_queries
    /\ LET bits == VerifierLogMaxHeight(vin.proof.fri_proof, cfg) + ExtraQueryIndexBits
       IN  \E idx \in SampleChoices(vtranscript, "sample_bits", bits, QuerySample(bits)) :
             /\ vchal' = [vchal EXCEPT !.indices = Append(@, idx)]
             /\ vtranscript' = Append(vtranscript, Smp("sample_bits", bits, idx))
    /\ UNCHANGED <<harnessVars, cfg, debug, inputs, proverVars, oracle, run, proof1>>
    /\ UNCHANGED <<scn, pdata, all_opened_values, vin, tamper, ppc, vro, vresult, result0>>

\* verify_multi_batches: the reduced openings of every query
VOpenings ==
    /\ ppc = "indices"
    /\ Len(vchal.indices) = cfg.num_queries
    /\ LET r == ReducedOpeningsOfQueries(1, vin, vchal.indices, vchal.alpha, cfg, debug)
       IN  IF r.status = "ok"
           THEN /\ vro' = r.ros
                /\ ppc' = "challenges"
                /\ UNCHANGED vresult
           ELSE /\ vresult' = OpeningsError(r.status)
                /\ ppc' = "done"
                /\ UNCHANGED vro
    /\ UNCHANGED <<harnessVars, cfg, debug, inputs, proverVars, oracle, run, proof1>>
    /\ UNCHANGED <<scn, pdata, all_opened_values, vin, tamper, vtranscript, vchal, result0>>

\* verify_multi_batches: verify_challenges and the result
VChallenges ==
    /\ ppc = "challenges"
    /\ vresult' = IF VerifyChallenges(cfg, vin.proof.fri_proof, vchal, vro)
                  THEN "Ok" ELSE "FriError"
    /\ ppc' = "done"
    /\ UNCHANGED <<harnessVars, cfg, debug, inputs, proverVars, oracle, run, proof1>>
    /\ UNCHANGED <<scn, pdata, all_opened_values, vin, tamper, vtranscript, vchal, vro, result0>>

\* the domain point x the verifier derives for matrix m of batch b at an index
QueriedPoint(b, m, index) ==
    LET log_height == Log2(MatHeight(pdata[b][m]))
        log_global == Log2(SetMax({MatHeight(AllMats(MatsAndPoints)[j]) :
                                      j \in 1..Len(AllMats(MatsAndPoints))}))
    IN  BMul(Generator,
             BPow(TwoAdicGenerator(log_height),
                  ReverseBitsLen(Shr(index, log_global - log_height), log_height)))

\* the single changes made to what the prover returned
Tampers ==
    LET fp == vin.proof.fri_proof
        terms == OpenTerms(MatsAndPoints)
    IN  {[kind |-> "sibling", a |-> q, b |-> r, c |-> 0, d |-> 0] :
            q \in 1..Len(fp.query_proofs), r \in 1..Len(fp.commit_phase_commits)}
        \cup
        {[kind |-> "opened", a |-> q, b |-> t[1], c |-> t[2], d |-> j] :
            q \in 1..Len(vin.proof.query_openings),
            t \in {terms[n] : n \in 1..Len(terms)}, j \in 1..2}
        \cup
        {[kind |-> "commit", a |-> r, b |-> 0, c |-> 0, d |-> 0] :
            r \in 1..Len(fp.commit_phase_commits)}
        \cup
        {[kind |-> "value", a |-> t[1], b |-> t[2], c |-> t[3], d |-> j] :
            t \in {terms[n] : n \in 1..Len(terms)}, j \in 1..2}
        \cup
        {[kind |-> k, a |-> 0, b |-> 0, c |-> 0, d |-> 0] : k \in {"truncate", "shape"}}
        \cup
        {[kind |-> "extra_batch", a |-> b, b |-> 0, c |-> 0, d |-> 0] :
            b \in 1..Len(vin.dims)}
        \cup
        {[kind |-> "shape_opened", a |-> q, b |-> t[1], c |-> t[2], d |-> 1] :
            q \in 1..Len(vin.proof.query_openings),
            t \in {terms[n] : n \in 1..Len(terms)}}
        \cup
        {[kind |-> k, a |-> t[1], b |-> t[2], c |-> t[3], d |-> 0] :
            k \in {"empty_batch", "height", "point"},
            t \in {terms[n] : n \in 1..Len(terms)}}

TamperApplies(t) ==
    CASE t.kind \in {"opened", "shape_opened"} ->
            t.d <= Len(vin.proof.query_openings[t.a][t.b].opened_values[t.c])
      [] t.kind = "value" -> t.d <= Len(vin.values[t.a][t.b][t.c])
      [] t.kind = "truncate" -> vin.proof.fri_proof.commit_phase_commits # <<>>
      [] t.kind \in {"empty_batch", "height"} -> t.c = 1
      [] OTHER -> TRUE

Tampered(t) ==
    CASE t.kind = "sibling" ->
            [vin EXCEPT !.proof.fri_proof.query_proofs[t.a].commit_phase_openings[t.b]
                             .sibling_value = EAdd(@, 1)]
      [] t.kind = "opened" ->
            [vin EXCEPT !.proof.query_openings[t.a][t.b].opened_values[t.c][t.d] =
                             BAdd(@, 1)]
      [] t.kind = "commit" ->
            [vin EXCEPT !.proof.fri_proof.commit_phase_commits[t.a][1][1] = EAdd(@, 1)]
      [] t.kind = "value" ->
            [vin EXCEPT !.values[t.a][t.b][t.c][t.d] = EAdd(@, 1)]
      [] t.kind = "truncate" ->
            LET qps == vin.proof.fri_proof.query_proofs
            IN  [vin EXCEPT !.proof.fri_proof.commit_phase_commits =
                                 SubSeq(@, 1, Len(@) - 1),
                            !.proof.fri_proof.query_proofs =
                                 [q \in 1..Len(qps) |->
                                     [input_proof |-> qps[q].input_proof,
                                      commit_phase_openings |->
                                          SubSeq(qps[q].commit_phase_openings, 1,
                                                 Len(qps[q].commit_phase_openings) - 1)]]]
      [] t.kind = "shape" ->
            [vin EXCEPT !.proof.fri_proof.query_proofs = SubSeq(@, 1, Len(@) - 1)]
      [] t.kind = "shape_opened" ->
            [vin EXCEPT !.proof.fri_proof.query_proofs = SubSeq(@, 1, Len(@) - 1),
                        !.proof.query_openings[t.a][t.b].opened_values[t.c][t.d] =
                             BAdd(@, 1)]
      [] t.kind = "extra_batch" ->
            [vin EXCEPT !.commits_and_points = Append(@, @[t.a]),
                        !.dims = Append(@, @[t.a]),
                        !.values = Append(@, [@[t.a] EXCEPT ![1][1][1] = EAdd(@, 1)])]
      [] t.kind = "empty_batch" -> [vin EXCEPT !.dims[t.a] = <<>>]
      [] t.kind = "height" -> [vin EXCEPT !.dims[t.a][t.b].height = 3 * @]
      [] t.kind = "point" ->
            [vin EXCEPT !.commits_and_points[t.a].points[t.b][t.c] =
                             QueriedPoint(t.a, t.b, query_indices[1])]

\* the verifier is handed the prover's output with one change made to it
Tamper ==
    /\ ppc = "done"
    /\ tamper.kind = "none"
    /\ \E t \in Tampers :
         /\ TamperApplies(t)
         /\ vin' = Tampered(t)
         /\ tamper' = t
    /\ result0' = vresult
    /\ ppc' = "alpha"
    /\ VerifierReset
    /\ UNCHANGED <<harnessVars, cfg, debug, inputs, proverVars, oracle, run, proof1>>
    /\ UNCHANGED <<scn, pdata, all_opened_values>>

PcsNext ==
    \/ PcsCommit
    \/ PcsOpen
    \/ ProveNext
    \/ PcsFinish
    \/ VAlpha
    \/ VBeta
    \/ VFinal
    \/ VIndex
    \/ VOpenings
    \/ VChallenges
    \/ Tamper

SpecPcs == PcsInit /\ [][PcsNext]_vars

(***************************************************************************)
(* Properties of the PowersReducer and interpolation harnesses             *)
(***************************************************************************)
IpCosetElems ==
    {CyclicSubgroupCoset(TwoAdicGenerator(ip.k), ip.shift, Pow2(ip.k))[i] :
        i \in 1..Pow2(ip.k)}

IpExpected == [c \in 1..Len(ip.polys) |-> PolyEval(ip.polys[c], ip.point)]

\* C7: for a reducer built with challenge alpha and maximum width n and every
\* input of length at most n, reduce_ext and reduce_base return the naive sum
\* of alpha^i * xs[i]; reduce_base agrees with reduce_ext on the lifted inputs.
C7_PowersReducerCorrect ==
    rd.pc \in {"ext", "base"} =>
        /\ rd.out = [ok |-> TRUE, val |-> NaiveReduce(rd.alpha, rd.xs)]
        /\ rd.pc = "base" => rd.out.val = ReduceExt(rd.r, rd.xs)

\* reduce_base on an input spanning two full packs plus a tail, extension alpha
C7_Witness ==
    /\ rd.pc = "base"
    /\ rd.r.width = 2
    /\ Len(rd.xs) = 5
    /\ ~IsBase(rd.alpha)
    /\ rd.out.ok
    /\ ~IsBase(rd.out.val)

\* C8: for every polynomial of degree below the coset size, every shift and
\* every point outside the coset, interpolate_coset returns exactly p(z);
\* interpolate_subgroup is interpolate_coset with shift one.
C8_InterpolationExact ==
    /\ (ip.pc \in {"coset", "subgroup"} /\ ip.point \notin IpCosetElems) =>
          ip.out = [ok |-> TRUE, val |-> IpExpected]
    /\ ip.pc = "subgroup" => ip.out = InterpolateCoset(ip.evals, 1, ip.point)

\* a degree-3 polynomial on a shifted coset of size 4, opened at an extension point
C8_Witness ==
    /\ ip.pc = "coset"
    /\ ip.k = 2
    /\ ip.shift = Generator
    /\ ip.polys[1][4] # 0
    /\ ~IsBase(ip.point)
    /\ ip.out.ok
    /\ ip.out.val = IpExpected

\* C9: when the target point is an element of the evaluation coset,
\* interpolate_coset returns the polynomial's value there.
C9_InDomainValue ==
    (ip.pc = "coset" /\ ip.point \in IpCosetElems) =>
        ip.out = [ok |-> TRUE, val |-> IpExpected]

(***************************************************************************)
(* Properties of prove                                                     *)
(***************************************************************************)
Returned == pc \in {"grind", "query", "answer", "done"}

FinalPolyTailZero ==
    \A i \in 1..Len(final_poly) : i > Pow2(cfg.log_final_poly_len) => final_poly[i] = 0

\* C4: two runs of prove on identical inputs, config and transcript seed return
\* identical proofs, however the parallel query workers are scheduled.
C4_Determinism ==
    (run = 2 /\ pc = "done") => proof = proof1

\* a repeated run with two fold rounds and two different query indices
C4_Witness ==
    /\ run = 2
    /\ pc = "done"
    /\ Len(proof.commit_phase_commits) >= 2
    /\ query_indices[1] # query_indices[2]
    /\ proof.query_proofs[1] # proof.query_proofs[2]
    /\ proof = proof1

\* C5: commit_phase never returns a final_poly with a nonzero
\* coefficient at an index >= 2^log_final_poly_len.
C5_TailAlwaysZero ==
    Returned => FinalPolyTailZero

\* C10: with an empty input list, or a codeword longer than the one before it,
\* prove aborts on its assertions before any observe, sample or grind and
\* before committing anything.
C10_ContractAbort ==
    (inputs = <<>> \/ ~IsSortedDesc(inputs)) =>
        /\ pc \in {"start", "panic"}
        /\ transcript = <<>>
        /\ commits = <<>>
        /\ data = <<>>
        /\ folded = <<>>

\* prove aborted on an unsorted, non-empty input list
C10_Witness ==
    /\ pc = "panic"
    /\ inputs # <<>>
    /\ ~IsSortedDesc(inputs)
    /\ transcript = <<>>

\* C12: the final_poly commit_phase returns has exactly 2^log_final_poly_len
\* coefficients, whatever log_blowup is.
C12_FinalPolyLength ==
    Returned => Len(final_poly) = Pow2(cfg.log_final_poly_len)

\* the length of the codeword committed in round i: its pairs are the rows of
\* the retained matrix
CommittedLen(i) == 2 * MatHeight(data[i])

FoldThreshold == Blowup(cfg) * FinalPolyLen(cfg)

\* C13: the codeword committed in round i has half the length of the one
\* committed in round i-1; a round is executed only while the current length
\* is greater than blowup * final_poly_len; the loop exits at the first length
\* that is at most that threshold.
C13_FoldLengths ==
    /\ \A i \in 1..Len(data) : CommittedLen(i) > FoldThreshold
    /\ \A i \in 2..Len(data) : 2 * CommittedLen(i) = CommittedLen(i - 1)
    /\ data # <<>> => CommittedLen(1) = Len(inputs[1])
    /\ (data # <<>> /\ pc = "commit") => 2 * Len(folded) = CommittedLen(Len(data))
    /\ Returned =>
          /\ Len(folded) <= FoldThreshold
          /\ data # <<>> => 2 * Len(folded) = CommittedLen(Len(data))
          /\ data = <<>> => Len(folded) = Len(inputs[1])

\* commit_phase returned after two rounds, with a blow-up of two, the loop
\* left at the threshold itself
C13_Witness ==
    /\ Returned
    /\ Len(data) = 2
    /\ cfg.log_blowup = 1
    /\ CommittedLen(2) = 2 * FoldThreshold
    /\ Len(folded) = FoldThreshold

\* the codeword that came out of round r: the next committed one, or the
\* current one after the last round so far
CodewordAfter(r) == IF r < Len(data) THEN Concat(data[r + 1]) ELSE folded

\* the challenge sampled in round r, as the transcript records it
BetaOfRound(r) == transcript[2 * r][3][1][1]

\* C14: in every round the commitment to the current codeword is observed
\* into the transcript right before that round's beta is sampled, and the
\* codeword of the next round is the fold by that beta of the committed one
\* (plus a mixed-in input): no beta precedes the commitment of what it folds.
C14_CommitChallengeFold ==
    (pc = "commit" \/ Returned) =>
        /\ Len(commits) = Len(data)
        /\ Len(transcript) >= 2 * Len(data)
        /\ \A r \in 1..Len(data) :
              /\ commits[r] = MmcsCommitMatrix(data[r]).commit
              /\ transcript[2 * r - 1] = ObsCommit(commits[r])
              /\ transcript[2 * r][1] = "sample"
              /\ LET f == FoldMatrix(BetaOfRound(r), data[r])
                 IN  \/ CodewordAfter(r) = f
                     \/ \E j \in 2..taken :
                           /\ Len(inputs[j]) = Len(f)
                           /\ CodewordAfter(r) =
                                 [i \in 1..Len(f) |-> EAdd(f[i], inputs[j][i])]
        /\ \A n \in 1..Len(transcript) :
              transcript[n][1] = "sample" => (n % 2 = 0 /\ n <= 2 * Len(data))

\* three rounds done, an input mixed in on the way
C14_Witness ==
    /\ pc = "commit"
    /\ Len(commits) = 3
    /\ taken = 2
    /\ transcript[5] = ObsCommit(commits[3])
    /\ transcript[6][1] = "sample"
    /\ folded = FoldMatrix(BetaOfRound(3), data[3])

\* one round of commit_phase as the claim describes it: the current codeword
\* is the one committed, and after the fold the next input is added and
\* consumed exactly when it has the folded length
RoundMixesAsClaimed ==
    LET r == Len(data')
        f == FoldMatrix(transcript'[Len(transcript')][3][1][1], data'[r])
    IN  /\ Concat(data'[r]) = folded
        /\ IF taken < Len(inputs) /\ Len(inputs[taken + 1]) = Len(f)
           THEN /\ folded' = [i \in 1..Len(f) |-> EAdd(f[i], inputs[taken + 1][i])]
                /\ taken' = taken + 1
           ELSE /\ folded' = f
                /\ taken' = taken

\* C16: after each fold, the next not yet consumed input is added element by
\* element into the folded codeword and consumed if it has the folded
\* codeword's length; otherwise the folded codeword stays as it is and no input
\* is consumed; at most one input is consumed per round and the next round
\* commits the folded-plus-mixed codeword.
C16_MixEqualHeight ==
    [][(pc = "commit" /\ Len(data') = Len(data) + 1) => RoundMixesAsClaimed]_vars

\* a round has just added the second input into a folded codeword of four values
C16_Witness ==
    /\ pc = "commit"
    /\ data # <<>>
    /\ taken = 2
    /\ Len(folded) = 4
    /\ Len(inputs[2]) = 4
    /\ LET f == FoldMatrix(BetaOfRound(Len(data)), data[Len(data)])
       IN  /\ folded # f
           /\ folded = [i \in 1..4 |-> EAdd(f[i], inputs[2][i])]

\* x XOR 1
FlipLowBit(x) == IF x % 2 = 0 THEN x + 1 ELSE x - 1

\* the index answer_query is called with for the k-th query
AnsweredIndex(k) == Shr(query_indices[k], ExtraQueryIndexBits)

\* C17: for every fold round i (counted from 0), answer_query opens row
\* (idx >> i) >> 1 of round i's committed width-2 matrix, one row of width
\* two, and records as sibling_value that row's entry at column
\* ((idx >> i) XOR 1) mod 2, which is the round's codeword value at position
\* (idx >> i) XOR 1, not the one at position idx >> i.
C17_AnswerQueryIndices ==
    \A k \in answered :
        /\ answers[k].filled
        /\ Len(answers[k].steps) = Len(data)
        /\ \A r \in 1..Len(data) :
              LET index_i == Shr(AnsweredIndex(k), r - 1)
                  sibling == FlipLowBit(index_i)
                  row == Shr(index_i, 1)
                  step == answers[k].steps[r]
              IN  /\ MatWidth(data[r]) = 2
                  /\ row < MatHeight(data[r])
                  /\ step.opening_proof = MmcsOpenBatch(row, data[r]).opening_proof
                  /\ Len(MmcsOpenBatch(row, data[r]).opened_rows) = 1
                  /\ step.sibling_value = data[r][row + 1][(sibling % 2) + 1]
                  /\ step.sibling_value = Concat(data[r])[sibling + 1]
                  /\ sibling # index_i

\* an odd index answered over three rounds, the recorded sibling of the second
\* round different from the value at the queried position
C17_Witness ==
    /\ 1 \in answered
    /\ Len(data) = 3
    /\ AnsweredIndex(1) % 2 = 1
    /\ AnsweredIndex(1) >= 6
    /\ LET index_i == Shr(AnsweredIndex(1), 1)
       IN  /\ answers[1].steps[2].sibling_value = Concat(data[2])[FlipLowBit(index_i) + 1]
           /\ answers[1].steps[2].sibling_value # Concat(data[2])[index_i + 1]

\* the k-th index sampled, as the transcript records it
SampledIndex(k) == transcript[Len(transcript) - cfg.num_queries + k][3][1][1]

\* C18: prove returns exactly num_queries query proofs, in the order the
\* indices were sampled; the k-th holds open_input of the k-th sampled index,
\* unshifted, and the commit-phase openings of that same index shifted right
\* by the extra index bits, one step per fold round.
C18_QueryProofPairing ==
    pc = "done" =>
        /\ Len(proof.query_proofs) = cfg.num_queries
        /\ \A k \in 1..cfg.num_queries :
              /\ transcript[Len(transcript) - cfg.num_queries + k][1] = "sample_bits"
              /\ proof.query_proofs[k].input_proof = OpenInput(SampledIndex(k))
              /\ proof.query_proofs[k].commit_phase_openings =
                    AnswerQuery(data, Shr(SampledIndex(k), ExtraQueryIndexBits))
              /\ Len(proof.query_proofs[k].commit_phase_openings) =
                    Len(proof.commit_phase_commits)

\* two different indices of one extra bit sampled, the first odd, two fold
\* rounds, two different query proofs
C18_Witness ==
    /\ pc = "done"
    /\ ExtraQueryIndexBits = 1
    /\ SampledIndex(1) % 2 = 1
    /\ Len(proof.query_proofs) = 2
    /\ Len(proof.commit_phase_commits) = 2
    /\ SampledIndex(1) > SampledIndex(2)
    /\ proof.query_proofs[1].input_proof = OpenInput(SampledIndex(1))
    /\ proof.query_proofs[1].commit_phase_openings #
          proof.query_proofs[2].commit_phase_openings

(***************************************************************************)
(* Properties of the PCS round trip                                        *)
(***************************************************************************)
Verified == ppc = "done"

Honest == tamper.kind = "none"

\* C1: prove followed by verification, on reduced openings that are low-degree
\* codewords, with the same config and the same transcript seed, ends in Ok
\* whatever the sampled challenges and query indices are.
C1_Completeness ==
    (Verified /\ Honest /\ \A i \in 1..Len(inputs) : IsLowDegree(inputs[i], cfg))
        => vresult = "Ok"

C3_CorruptionRejected ==
    (Verified /\ tamper.kind \in {"sibling", "opened", "commit"} /\ result0 = "Ok")
        => vresult \in {"InputMmcsError", "FriError"}

\* a sibling value of the second fold round changed in an accepted proof, and
\* the changed proof rejected
C3_Witness ==
    /\ Verified
    /\ tamper.kind = "sibling"
    /\ tamper.b = 2
    /\ result0 = "Ok"
    /\ vresult = "FriError"

\* C6: verify_multi_batches returns Ok or a typed error, and never panics,
\* whatever proof, dims, values and points it is given.
C6_NeverPanics ==
    Verified => vresult \in {"Ok", "InputMmcsError", "FriError"}

\* the shape check and the sampling of the challenges went through
ShapePassed == Len(vchal.indices) = cfg.num_queries

\* the (query, batch) pairs the loops of verify_multi_batches cover
CoveredOpenings ==
    {<<q, b>> : q \in 1..Min(Len(vin.proof.query_openings), Len(vchal.indices)),
                b \in 1..Min(Len(vin.dims), Len(vin.commits_and_points))} \cap
    {<<q, b>> : q \in 1..Len(vin.proof.query_openings), b \in 1..Len(vin.values)} \cap
    UNION {{<<q, b>> : b \in 1..Len(vin.proof.query_openings[q])} :
              q \in 1..Len(vin.proof.query_openings)}

\* whether the Mmcs accepts the opening of batch b in query q at the index the
\* verifier reduces the sampled index to
InputOpeningAccepted(q, b) ==
    /\ vin.dims[b] # <<>>
    /\ LET batch_max_height ==
               SetMax({vin.dims[b][m].height * Pow2(cfg.log_blowup) :
                          m \in 1..Len(vin.dims[b])})
           bits_reduced ==
               Len(vin.proof.fri_proof.commit_phase_commits) + cfg.log_blowup
                   - Log2(batch_max_height)
       IN  MmcsVerifyBatchAll(vin.commits_and_points[b].commit, vin.dims[b],
                              UShr(vchal.indices[q], bits_reduced),
                              vin.proof.query_openings[q][b].opened_values,
                              vin.proof.query_openings[q][b].opening_proof)

AllInputOpeningsAccepted == \A o \in CoveredOpenings : InputOpeningAccepted(o[1], o[2])

\* C11: verify_multi_batches returns Ok only if the shape check, every input
\* opening check it makes and the FRI challenge verification succeed; a failed
\* shape check gives FriError, also when an input opening is invalid as well; a
\* rejected input opening gives InputMmcsError; a failed FRI check gives FriError.
C11_TypedFailures ==
    Verified =>
        /\ Len(vin.proof.fri_proof.query_proofs) # cfg.num_queries => vresult = "FriError"
        /\ ~ShapePassed => vresult = "FriError"
        /\ vresult = "Ok" =>
              /\ ShapePassed
              /\ AllInputOpeningsAccepted
              /\ VerifyChallenges(cfg, vin.proof.fri_proof, vchal, vro)
        /\ (vresult # "panic" /\ ShapePassed /\ ~AllInputOpeningsAccepted) =>
              vresult = "InputMmcsError"
        /\ (vresult = "FriError" /\ ShapePassed) =>
              /\ AllInputOpeningsAccepted
              /\ ~VerifyChallenges(cfg, vin.proof.fri_proof, vchal, vro)

\* a proof with a query proof missing and an opened value changed, rejected by
\* the shape check before any input opening is looked at
C11_Witness ==
    /\ Verified
    /\ tamper.kind = "shape_opened"
    /\ result0 = "Ok"
    /\ vresult = "FriError"
    /\ vro = <<>>
    /\ ~ShapePassed

\* the transcript operations of open_multi_batches and prove, in the order
\* the claim gives: alpha, per round observe(commit) and sample beta, the
\* final polynomial's coefficients in index order, the grind, the indices
ProverTranscriptInOrder ==
    LET R == Len(commits)
        F == Len(final_poly)
        bits == Log2(Len(inputs[1])) + ExtraQueryIndexBits
    IN  /\ Len(transcript) = 1 + 2 * R + F + 1 + cfg.num_queries
        /\ transcript[1][1] = "sample"
        /\ \A r \in 1..R :
              /\ transcript[2 * r] = ObsCommit(commits[r])
              /\ transcript[2 * r + 1][1] = "sample"
        /\ \A i \in 1..F : transcript[1 + 2 * R + i] = ObsExt(final_poly[i])
        /\ transcript[2 + 2 * R + F] = Smp("pow", cfg.proof_of_work_bits, pow_witness)
        /\ \A k \in 1..cfg.num_queries :
              transcript[2 + 2 * R + F + k] = Smp("sample_bits", bits, query_indices[k])

\* C15: the prover's transcript operations are alpha, then per round
\* observe(commit) and sample beta, then every final-polynomial coefficient,
\* then the grind, then num_queries sample_bits; the verifier of the unchanged
\* proof performs the same sequence and derives the same alpha, betas and
\* query indices.
C15_TranscriptMirrored ==
    /\ (ppc = "prove" /\ pc = "done") => ProverTranscriptInOrder
    /\ (Honest /\ ppc \in {"alpha", "betas", "indices", "challenges", "done"}) =>
          /\ Len(vtranscript) <= Len(transcript)
          /\ vtranscript = SubSeq(transcript, 1, Len(vtranscript))
    /\ (Honest /\ ppc \in {"challenges", "done"}) =>
          /\ ProverTranscriptInOrder
          /\ vtranscript = transcript
          /\ vchal.alpha = transcript[1][3][1][1]
          /\ vchal.betas = [r \in 1..Len(commits) |-> transcript[2 * r + 1][3][1][1]]
          /\ vchal.indices = query_indices

\* the verifier went through the unchanged proof of two fold rounds and a final
\* polynomial of two coefficients, with the prover's transcript
C15_Witness ==
    /\ Honest
    /\ Verified
    /\ vresult = "Ok"
    /\ Len(commits) = 2
    /\ Len(final_poly) = 2
    /\ Len(vchal.betas) = 2
    /\ vtranscript = transcript
    /\ vchal.indices = query_indices

\* the (batch, matrix, point, column) terms of the height bucket h, in the
\* order of the loops
BucketTerms(mp, h) ==
    LET ts == SelectSeq(OpenTerms(mp),
                        LAMBDA t : Log2(MatHeight(TermMat(mp, t))) = h)
    IN  Concat([n \in 1..Len(ts) |->
                  [j \in 1..MatWidth(TermMat(mp, ts[n])) |-> Append(ts[n], j)]])

\* sum_n alpha^n (p_n(x) - y_n) / (x - z_n) over the terms of bucket h, at
\* x = generator * g^bitrev(row)
NaiveReducedOpening(mp, h, row, alpha, ys) ==
    LET ts == BucketTerms(mp, h)
        x == BMul(Generator, BPow(TwoAdicGenerator(h), ReverseBitsLen(row, h)))
    IN  ESum([n \in 1..Len(ts) |->
                EMul(EPow(alpha, n - 1),
                     EMul(ESub(TermMat(mp, ts[n])[row + 1][ts[n][4]],
                               ys[ts[n][1]][ts[n][2]][ts[n][3]][ts[n][4]]),
                          EInv(ESub(x, TermPoint(mp, ts[n])))))])

\* the prover's reduced-opening codeword of log height h (empty if no matrix
\* has that height)
ProverBucket(h) ==
    LET is == {i \in 1..Len(inputs) : Log2(Len(inputs[i])) = h}
    IN  IF is = {} THEN <<>> ELSE inputs[CHOOSE i \in is : TRUE]

\* the log heights that have a reduced-opening codeword
InputLogHeights == {Log2(Len(inputs[i])) : i \in 1..Len(inputs)}

\* C19: for honestly opened values, every query the verifier gets through and
\* every height bucket, the ro[log_height] the verifier recomputes equals the
\* entry of the prover's reduced-opening codeword of that height at the index
\* shifted right by (log_global_max_height - log_height); both are the sum of
\* the bucket's (matrix, point, column) terms with consecutive powers of alpha
\* from alpha^0, at x = generator * g^bitrev(index).
C19_ReducedOpeningsAgree ==
    /\ (ppc = "prove" /\ pc = "start") =>
          \A i \in 1..Len(inputs) : \A row \in 0..(Len(inputs[i]) - 1) :
              inputs[i][row + 1] =
                  NaiveReducedOpening(MatsAndPoints, Log2(Len(inputs[i])), row,
                                      transcript[1][3][1][1], all_opened_values)
    /\ (Honest /\ ppc \in {"challenges", "done"} /\ vro # <<>>) =>
          /\ Len(vro) = cfg.num_queries
          /\ \A q \in 1..Len(vro) :
                /\ \A i \in 1..Len(inputs) :
                      vro[q][Log2(Len(inputs[i]))] =
                          inputs[i][Shr(vchal.indices[q],
                                        Log2(Len(inputs[1])) - Log2(Len(inputs[i]))) + 1]
                /\ \A h \in (0..(RoSlots - 1)) \ InputLogHeights : vro[q][h] = 0

\* an accepted honest opening of two matrices of different heights at three
\* (matrix, point) pairs, queried away from index 0, both buckets nonzero
C19_Witness ==
    /\ Honest
    /\ Verified
    /\ vresult = "Ok"
    /\ scn = ScnMixed
    /\ vchal.alpha \notin {0, 1}
    /\ vchal.indices[1] >= 6
    /\ vro[1][3] = ProverBucket(3)[vchal.indices[1] + 1]
    /\ vro[1][2] = ProverBucket(2)[Shr(vchal.indices[1], 1) + 1]
    /\ vro[1][3] # 0
    /\ vro[1][2] # 0

\* the j-th element (from 0) of the bit-reversed coset generator * <g> of size 2^h
BitRevCosetPoint(h, j) ==
    BMul(Generator, BPow(TwoAdicGenerator(h), ReverseBitsLen(j, h)))

\* the largest log height of a matrix opened at z
MaxLogHeightAt(mp, z) ==
    SetMax({Log2(MatHeight(TermMat(mp, OpenTerms(mp)[n]))) :
               n \in {j \in 1..Len(OpenTerms(mp)) : TermPoint(mp, OpenTerms(mp)[j]) = z}})

\* the opening points of mats_and_points
OpeningPoints(mp) == {TermPoint(mp, OpenTerms(mp)[n]) : n \in 1..Len(OpenTerms(mp))}

\* C20: compute_inverse_denominators returns, for each distinct opening point
\* z, one vector of length 2^h, h the largest log height of a matrix opened at
\* z, whose j-th entry is 1/(x_j - z) with x_j the j-th element of the
\* bit-reversed coset of size 2^h; and for every matrix opened at z the first
\* height-of-the-matrix entries are 1/(x - z) over the bit-reversed coset of the
\* matrix's own size, row by row.
C20_SharedInverseDenominators ==
    (ppc = "prove" /\ pc = "start") =>
        LET mp == MatsAndPoints
            inv == ComputeInverseDenominators(mp, Generator)
        IN  /\ DOMAIN inv = OpeningPoints(mp)
            /\ \A z \in OpeningPoints(mp) :
                  /\ inv[z].ok
                  /\ Len(inv[z].val) = Pow2(MaxLogHeightAt(mp, z))
                  /\ \A j \in 1..Len(inv[z].val) :
                        inv[z].val[j] =
                            EInv(ESub(BitRevCosetPoint(MaxLogHeightAt(mp, z), j - 1), z))
            /\ \A n \in 1..Len(OpenTerms(mp)) :
                  LET mat == TermMat(mp, OpenTerms(mp)[n])
                      z == TermPoint(mp, OpenTerms(mp)[n])
                  IN  /\ MatHeight(mat) <= Len(inv[z].val)
                      /\ \A row \in 1..MatHeight(mat) :
                            inv[z].val[row] =
                                EInv(ESub(BitRevCosetPoint(Log2(MatHeight(mat)), row - 1), z))

\* a point opened only by the smaller matrix gets a proper prefix of the largest
\* coset, and a point shared by matrices of two heights gets a vector that the
\* smaller matrix uses truncated
C20_Witness ==
    /\ ppc = "prove"
    /\ pc = "start"
    /\ scn = ScnMixed
    /\ Len(ComputeInverseDenominators(MatsAndPoints, Generator)[Z2].val) = 4
    /\ Len(ComputeInverseDenominators(MatsAndPoints, Generator)[Z1].val) = 8
    /\ MatHeight(MatsAndPoints[1].mats[2]) = 4
    /\ MatsAndPoints[1].points[2] = <<Z1, Z2>>

\* the value at row `row` (from 0) of the low-degree extension of matrix m of
\* batch b: its columns' polynomials at generator * g^row, g of the extended size
LdeRow(b, m, row) ==
    LET log_h == Log2(MatHeight(scn.polys[b][m]))
        width == MatWidth(scn.polys[b][m])
        x == BMul(Generator, BPow(TwoAdicGenerator(log_h + cfg.log_blowup), row))
    IN  [col \in 1..width |-> PolyEval(ScnCoeffs(b, m, log_h, width)[col], x)]

\* C21: commit_batches commits, for each input matrix, the rows of its coset
\* low-degree extension (blow-up 2^log_blowup) in bit-reversed order, and equals
\* commit_shifted_batches with every shift one; get_ldes on the prover data
\* returns each extension in natural row order.
C21_CommitLayoutRoundTrip ==
    ppc = "open" =>
        \A b \in 1..Len(scn.polys) :
            LET ones == [m \in 1..Len(scn.polys[b]) |-> 1]
                committed == MmcsGetMatrices(pdata[b])
                log_big(m) == Log2(MatHeight(scn.polys[b][m])) + cfg.log_blowup
            IN  /\ CommitBatches(scn.polys[b], cfg) =
                       CommitShiftedBatches(scn.polys[b], ones, cfg)
                /\ pdata[b] = CommitBatches(scn.polys[b], cfg).prover_data
                /\ Len(committed) = Len(scn.polys[b])
                /\ Len(GetLdes(pdata[b])) = Len(scn.polys[b])
                /\ \A m \in 1..Len(scn.polys[b]) :
                      /\ MatHeight(committed[m]) = Pow2(log_big(m))
                      /\ \A r \in 0..(Pow2(log_big(m)) - 1) :
                            /\ committed[m][r + 1] =
                                   LdeRow(b, m, ReverseBitsLen(r, log_big(m)))
                            /\ GetLdes(pdata[b])[m][r + 1] = LdeRow(b, m, r)

\* a committed extension of eight rows whose bit-reversed order differs from
\* its natural order
C21_Witness ==
    /\ ppc = "open"
    /\ scn = ScnMixed
    /\ MatHeight(MmcsGetMatrices(pdata[1])[1]) = 8
    /\ MmcsGetMatrices(pdata[1])[1][2] = LdeRow(1, 1, 4)
    /\ MmcsGetMatrices(pdata[1])[1][2] # LdeRow(1, 1, 1)
    /\ GetLdes(pdata[1])[1][2] = LdeRow(1, 1, 1)

\* every transcript operation of prove is in the transcript: per round a
\* commitment and a beta, the final polynomial, the grind, the query indices
TranscriptComplete ==
    /\ Len(transcript) = 2 * Len(commits) + Len(final_poly) + 1 + cfg.num_queries
    /\ transcript[2 * Len(commits) + Len(final_poly) + 1][1] = "pow"
    /\ Len(query_indices) = cfg.num_queries
    /\ \A k \in 1..cfg.num_queries :
          transcript[Len(transcript) - cfg.num_queries + k] =
              Smp("sample_bits", QueryBits, query_indices[k])

\* the commit-phase openings a sequential run produces for the k-th index
SequentialOpening(k) ==
    AnswerQuery(data, Shr(query_indices[k], ExtraQueryIndexBits))

\* the answers gathered so far are, position by position, the sequential ones
AnswersSequential ==
    /\ Len(answers) = Len(query_indices)
    /\ \A k \in 1..Len(answers) :
          IF k \in answered
          THEN answers[k] = [filled |-> TRUE, steps |-> SequentialOpening(k)]
          ELSE answers[k] = EmptySlot

\* C22: the parallel workers that answer queries only read the retained
\* per-round data and never touch the transcript; every transcript operation
\* of prove is finished before any worker starts; and under every interleaving
\* of the workers the list of commit-phase openings equals the one a
\* sequential run produces.
C22_QueryPhaseConcurrency ==
    [][/\ pc = "answer" =>
             /\ transcript' = transcript
             /\ data' = data
             /\ commits' = commits
             /\ query_indices' = query_indices
             /\ input_proofs' = input_proofs
       /\ pc' = "answer" => (TranscriptComplete' /\ AnswersSequential')
       /\ pc' = "done" =>
             /\ TranscriptComplete'
             /\ [k \in 1..Len(proof'.query_proofs) |->
                    proof'.query_proofs[k].commit_phase_openings] =
                 [k \in 1..cfg.num_queries |-> SequentialOpening(k)']]_vars

\* the worker of the second index has finished before the worker of the first,
\* on different indices and two fold rounds
C22_Witness ==
    /\ pc = "answer"
    /\ answered = {2}
    /\ Len(data) >= 2
    /\ query_indices[1] # query_indices[2]
    /\ SequentialOpening(1) # SequentialOpening(2)
    /\ answers[2].steps = SequentialOpening(2)
    /\ ~answers[1].filled
    /\ TranscriptComplete

\* C23 as stated: row(r) of a PublicRow returns the stored vector for every
\* requested row index r, including r = 0, the only index below its height.
C23_PublicRowRepeated ==
    pr.pc = "row" => (pr.out.ok /\ pr.out.val = pr.values)

\* C24 as stated: for every input list that passes prove's assertions, when
\* commit_phase returns every input codeword has been the starting codeword or
\* been added into the folded codeword in some round.
C24_NoInputDropped ==
    Returned => taken = Len(inputs)

\* the prover's log_global_max_height: log2 of the largest committed height
ProverLogGlobalMaxHeight ==
    Log2(SetMax({MatHeight(AllMats(MatsAndPoints)[j]) :
                    j \in 1..Len(AllMats(MatsAndPoints))}))

\* the fold rounds commit_phase made are one per commitment and per retained
\* data entry, log2(longest input) - log_blowup - log_final_poly_len of them
RoundCountAsClaimed ==
    /\ Len(commits) = Len(data)
    /\ Len(commits) =
          Log2(Len(inputs[1])) - cfg.log_blowup - cfg.log_final_poly_len

\* C25 as stated: commit_phase returns equally many commitments and retained
\* data entries, log2(longest input) - log_blowup - log_final_poly_len of them,
\* and the verifier's log_global_max_height, commit_phase_commits.len() +
\* log_blowup, equals the prover's log2 of the largest committed matrix height
\* for every config.
C25_RoundCountAndHeight ==
    (vin # <<>> /\ Honest) =>
        /\ RoundCountAsClaimed
        /\ Len(vin.proof.fri_proof.commit_phase_commits) + cfg.log_blowup =
              ProverLogGlobalMaxHeight

\* the (batch, matrix, point, column) terms of the claimed values
ClaimedTerms ==
    {<<b, m, k, j>> \in (1..Len(vin.values)) \X (1..2) \X (1..2) \X (1..2) :
        /\ m <= Len(vin.values[b])
        /\ k <= Len(vin.values[b][m])
        /\ j <= Len(vin.values[b][m][k])}

\* whether the loops of verify_multi_batches reach term t in query q: every izip
\* stops at its shortest list
TermCovered(q, t) ==
    /\ q <= Min(Len(vin.proof.query_openings), Len(vchal.indices))
    /\ t[1] <= Min(Min(Len(vin.proof.query_openings[q]), Len(vin.dims)),
                   Len(vin.commits_and_points))
    /\ t[2] <= Min(Min(Len(vin.proof.query_openings[q][t[1]].opened_values),
                       Len(vin.dims[t[1]])),
                   Len(vin.commits_and_points[t[1]].points))
    /\ t[3] <= Len(vin.commits_and_points[t[1]].points[t[2]])
    /\ t[4] <= Len(vin.proof.query_openings[q][t[1]].opened_values[t[2]])

\* C26 as stated: when verify_multi_batches accepts, for every sampled query
\* index the reduced openings handed to the FRI check hold one term for every
\* (batch, matrix, point, column) of the claimed values and every batch has a
\* verified input opening: a proof with fewer openings than that is rejected.
C26_VerifierCoversEveryTerm ==
    (Verified /\ vresult = "Ok") =>
        /\ Len(vro) = Len(vchal.indices)
        /\ \A q \in 1..Len(vchal.indices) :
              /\ \A t \in ClaimedTerms : TermCovered(q, t)
              /\ \A b \in 1..Len(vin.values) : InputOpeningAccepted(q, b)

=============================================================================
